---- MODULE Spec2Model ----
(***************************************************************************)
(* OpenCarve: the Motion Interpreter (gcode/parser.py), the Segment Merger *)
(* (gcode/postprocessor.py) and the Raster Generator (gcode/generator.py)  *)
(* as state machines, successive calls on one parser, and the pipeline of  *)
(* ui/main_window.py that interprets the text of the generator.            *)
(*                                                                         *)
(* Numbers.  Coordinates of the interpreter are Python floats; they are    *)
(* modelled as integers (exact arithmetic).  An optional value (Python's   *)
(* None) is a sequence of length 0 or 1: None == <<>>, Some(v) == <<v>>.   *)
(***************************************************************************)
EXTENDS Integers, Sequences, FiniteSets, TLC

VARIABLES
    \* ---- GcodeParser / GcodeModel (gcode/parser.py)
    pc,          \* "parsing" (inside the line loop), "done" (model returned), "aborted" (exception raised)
    lineNb,      \* GcodeParser.lineNb
    line,        \* GcodeParser.line, the line being processed
    relative,    \* GcodeModel.relative
    offset,      \* GcodeModel.offset
    isRelative,  \* GcodeModel.isRelative
    segments,    \* GcodeModel.segments
    layers,      \* GcodeModel.layers   (None until postProcess)
    distance,    \* GcodeModel.distance (None until postProcess)
    extrudate,   \* GcodeModel.extrudate (None until postProcess)
    bbox,        \* GcodeModel.bbox     (None until the first extend_bbox)
    warnings,    \* what GcodeParser.warn printed, in order
    raised,      \* the exception GcodeParser.error raised (None if none)
    log,         \* history: one snapshot per line consumed by the line loop
    calls,       \* history: one record per call of parseString / parseFile on the parser
    \* ---- optimize_gcode (gcode/postprocessor.py)
    mpc,             \* "loop" (inside the for loop), "done" (text returned), "error" (exception raised)
    optimized_lines, \* optimized_lines
    buffer_line,     \* buffer_line: None or Some([x, y, z, f])
    last_cmd_type,   \* last_cmd_type: None, Some("G0") or Some("G1")
    result,          \* the text optimize_gcode returned (None until it returns)
    mlog,            \* history: one snapshot per line consumed by the for loop
    \* ---- GCodeGenerator.convert_image_to_gcode (gcode/generator.py)
    gpc,          \* "idle", "start", "passes" (at the head of the pass loop), "rows" (inside the
                  \* row loop), "done" (text returned), or the name of the exception raised
    params,       \* the attributes of the generator the call reads (None when idle)
    image_array,  \* the argument: [rows, cols, px]  (None when idle)
    total_passes, \* total_passes (None before line 54)
    pass_i,       \* pass_i (0 before the first pass)
    pass_depth,   \* pass_depth (None before the first pass)
    y,            \* y, the row index of the row loop
    lines,        \* lines
    glog,         \* history: one record per row written
    gresult       \* the text convert_image_to_gcode returned (None until it returns)

parserVars == <<pc, lineNb, line, relative, offset, isRelative, segments,
                layers, distance, extrudate, bbox, warnings, raised, log, calls>>

mergerVars == <<mpc, optimized_lines, buffer_line, last_cmd_type, result, mlog>>

generatorVars == <<gpc, params, image_array, total_passes, pass_i, pass_depth,
                   y, lines, glog, gresult>>

vars == <<parserVars, mergerVars, generatorVars>>

None == <<>>
Some(v) == <<v>>

-----------------------------------------------------------------------------
(* Bounds of the model *)

\* the number of lines of one input text of the interpreter
MaxLines == 4

\* the number of calls of parseString / parseFile on one parser
MaxCalls == 2

\* the number of lines of one input of the merger
MaxMergeLines == 4

-----------------------------------------------------------------------------
(* GcodeModel *)

Axes == {"X", "Y", "Z", "F", "E"}
OffsetAxes == {"X", "Y", "Z", "E"}

ZeroCoords == [a \in Axes |-> 0]
ZeroOffset == [a \in OffsetAxes |-> 0]

\* A dict in insertion order: a sequence of <<key, value>> with distinct keys.
DictKeys(d) == {d[i][1] : i \in DOMAIN d}
DictGet(d, k) == d[CHOOSE i \in DOMAIN d : d[i][1] = k][2]
DictSet(d, k, v) ==
    IF k \in DictKeys(d)
    THEN [i \in DOMAIN d |-> IF d[i][1] = k THEN <<k, v>> ELSE d[i]]
    ELSE Append(d, <<k, v>>)

\* A line after comment stripping: the command token and the argument bits.
\* A bit is [letter, num]: num is Some(n) when the text after the letter reads
\* as the number n, and None when float() raises ValueError on it.
Bit(l, n) == [letter |-> l, num |-> Some(n)]
Cmd(c, bits) == [code |-> c, bits |-> bits]

\* parseArgs, lines 284-287: float(bit[1:]), 1 on ValueError.
\* (BitCoordZero: the faulty variant that reads 0 where there is no number.)
BitCoordZero(bit) == IF bit.num # None THEN bit.num[1] ELSE 0
BitCoord(bit) == IF bit.num # None THEN bit.num[1] ELSE 1

RECURSIVE parseArgsFrom(_, _)
parseArgsFrom(dic, bits) ==
    IF bits = <<>> THEN dic
    ELSE parseArgsFrom(DictSet(dic, Head(bits).letter, BitCoord(Head(bits))), Tail(bits))

parseArgs(bits) == parseArgsFrom(<<>>, bits)

\* The warnings of a do_G1 / do_G92 loop: one per key that is not an axis.
RECURSIVE UnknownAxisWarnings(_, _, _)
UnknownAxisWarnings(args, known, n) ==
    IF args = <<>> THEN <<>>
    ELSE (IF Head(args)[1] \in known THEN <<>>
          ELSE << [lineNb |-> n, msg |-> "Unknown axis", what |-> Head(args)[1]] >>)
         \o UnknownAxisWarnings(Tail(args), known, n)

\* do_G1, lines 41-44: the new relative coordinate of an axis that is given.
\* (G1AxisAlwaysAbsolute: the faulty variant that ignores isRelative.)
G1AxisAlwaysAbsolute(old, isRel, v) == v
G1Axis(old, isRel, v) == IF isRel THEN old + v ELSE v

\* do_G1, lines 38-46: the coordinates after the move.
\* (G1CoordsStopAtUnknown: the faulty variant that leaves the loop at the
\* first unknown axis.)
RECURSIVE G1CoordsStopAtUnknown(_, _, _)
G1CoordsStopAtUnknown(coords, isRel, args) ==
    IF args = <<>> THEN coords
    ELSE IF Head(args)[1] \notin DOMAIN coords THEN coords
    ELSE G1CoordsStopAtUnknown(
             [coords EXCEPT ![Head(args)[1]] = G1Axis(@, isRel, Head(args)[2])],
             isRel, Tail(args))

RECURSIVE G1Coords(_, _, _)
G1Coords(coords, isRel, args) ==
    IF args = <<>> THEN coords
    ELSE LET axis == Head(args)[1]
             v    == Head(args)[2]
             c2   == IF axis \in DOMAIN coords
                     THEN [coords EXCEPT ![axis] = G1Axis(@, isRel, v)]
                     ELSE coords
         IN  G1Coords(c2, isRel, Tail(args))

\* do_G1, lines 48-54: the absolute coordinates recorded in the segment.
\* (AbsoluteDropsFeed: the faulty variant that records no feed.)
AbsoluteDropsFeed(off, coords) ==
    [a \in Axes |-> IF a = "F" THEN 0 ELSE off[a] + coords[a]]
Absolute(off, coords) ==
    [a \in Axes |-> IF a = "F" THEN coords["F"] ELSE off[a] + coords[a]]

\* Segment.__init__: style, layerIdx, distance and extrudate are None (the
\* record has no such field) until postProcess sets them.
Segment(type, coords, n, l) ==
    [type |-> type, coords |-> coords, lineNb |-> n, line |-> l]

\* do_G92, lines 64-66: no arguments means all of X, Y, Z, E to 0.
\* (G92ArgsNoDefault: the faulty variant that resets nothing.)
G92ArgsNoDefault(args) == args
G92Args(args) ==
    IF args = <<>> THEN << <<"X", 0>>, <<"Y", 0>>, <<"Z", 0>>, <<"E", 0>> >> ELSE args

\* do_G92, line 69: the new offset of an axis that is reset to v.
\* (G92OffsetIgnoresRelative: the faulty variant `offset -= v`.)
G92OffsetIgnoresRelative(off, rel, v) == off - v
G92Offset(off, rel, v) == off + (rel - v)

\* do_G92, lines 67-72: the offsets and the relative coordinates after the
\* reset, as a record [offset, relative].
RECURSIVE G92Loop(_, _)
G92Loop(st, args) ==
    IF args = <<>> THEN st
    ELSE LET axis == Head(args)[1]
             v    == Head(args)[2]
             s2   == IF axis \in DOMAIN st.offset
                     THEN [offset   |-> [st.offset EXCEPT ![axis] = G92Offset(@, st.relative[axis], v)],
                           relative |-> [st.relative EXCEPT ![axis] = v]]
                     ELSE st
         IN  G92Loop(s2, Tail(args))

\* classifySegments, lines 92-96: the style of a segment with absolute
\* coordinates c, the previous segment's being p.
\* (StyleRestoreOnDecrease: the faulty variant with retract and restore swapped.)
StyleRestoreOnDecrease(c, p) ==
    IF (c["X"] # p["X"] \/ c["Y"] # p["Y"]) /\ c["E"] > p["E"] THEN "extrude"
    ELSE IF c["X"] = p["X"] /\ c["Y"] = p["Y"] /\ c["E"] # p["E"]
         THEN (IF c["E"] < p["E"] THEN "restore" ELSE "retract")
         ELSE "fly"
Style(c, p) ==
    LET s1 == IF c["X"] = p["X"] /\ c["Y"] = p["Y"] /\ c["E"] # p["E"]
              THEN (IF c["E"] < p["E"] THEN "retract" ELSE "restore")
              ELSE "fly"
    IN  IF (c["X"] # p["X"] \/ c["Y"] # p["Y"]) /\ c["E"] > p["E"]
        THEN "extrude"
        ELSE s1

\* classifySegments, line 97: the segment starts a new layer.
\* (StartsLayerOnAnyFlow: the faulty variant without the Z comparison.)
StartsLayerOnAnyFlow(c, p, layerZ) == c["E"] > p["E"]
StartsLayer(c, p, layerZ) == c["E"] > p["E"] /\ c["Z"] # layerZ

\* classifySegments, lines 91-103: the loop, from the state (coords,
\* currentLayerIdx, currentLayerZ); the segments with style and layerIdx set.
RECURSIVE ClassifyFrom(_, _, _, _)
ClassifyFrom(segs, coords, idx, layerZ) ==
    IF segs = <<>> THEN <<>>
    ELSE LET seg  == Head(segs)
             new  == StartsLayer(seg.coords, coords, layerZ)
             idx2 == IF new THEN idx + 1 ELSE idx
             z2   == IF new THEN seg.coords["Z"] ELSE layerZ
             seg2 == [type |-> seg.type, coords |-> seg.coords,
                      lineNb |-> seg.lineNb, line |-> seg.line,
                      style |-> Style(seg.coords, coords), layerIdx |-> idx2]
         IN  <<seg2>> \o ClassifyFrom(Tail(segs), seg.coords, idx2, z2)

classifySegments(segs) == ClassifyFrom(segs, ZeroCoords, 0, 0)

\* Layer.__init__ and splitLayers line 113.  Layer.segments holds references
\* to the Segment objects of GcodeModel.segments: their indices.
\* (LayerStartsAtZero: the faulty variant that starts every layer at the
\* origin.)
LayerStartsAtZero(z, start) ==
    [Z |-> z, segments |-> <<>>, start |-> ZeroCoords]
Layer(z, start) ==
    [Z |-> z, segments |-> <<>>, start |-> start]

\* splitLayers, lines 110-117, from segment i on.
\* (SplitFromSegmentZ: the faulty variant that gives a layer the Z of its
\* first segment.)
RECURSIVE SplitFromSegmentZ(_, _, _, _, _)
SplitFromSegmentZ(segs, i, coords, cur, ls) ==
    IF i > Len(segs) THEN ls
    ELSE LET seg == segs[i]
             ls1 == IF cur # seg.layerIdx
                    THEN Append(ls, Layer(seg.coords["Z"], coords))
                    ELSE ls
             ls2 == [ls1 EXCEPT ![Len(ls1)].segments = Append(@, i)]
         IN  SplitFromSegmentZ(segs, i + 1, seg.coords, seg.layerIdx, ls2)

RECURSIVE SplitFrom(_, _, _, _, _)
SplitFrom(segs, i, coords, cur, ls) ==
    IF i > Len(segs) THEN ls
    ELSE LET seg == segs[i]
             ls1 == IF cur # seg.layerIdx
                    THEN Append(ls, Layer(coords["Z"], coords))
                    ELSE ls
             ls2 == [ls1 EXCEPT ![Len(ls1)].segments = Append(@, i)]
         IN  SplitFrom(segs, i + 1, seg.coords, seg.layerIdx, ls2)

splitLayers(segs) == SplitFrom(segs, 1, ZeroCoords, -1, <<>>)

\* BBox.__init__ and BBox.extend; extend_bbox of calcMetrics (lines 124-128).
Min(a, b) == IF a < b THEN a ELSE b
Max(a, b) == IF a > b THEN a ELSE b

BBox(c) == [xmin |-> c["X"], xmax |-> c["X"],
            ymin |-> c["Y"], ymax |-> c["Y"],
            zmin |-> c["Z"], zmax |-> c["Z"]]

\* (ExtendLowerOnly: the faulty variant that never raises an upper bound.)
ExtendLowerOnly(b, c) ==
    [xmin |-> Min(b.xmin, c["X"]), xmax |-> b.xmax,
     ymin |-> Min(b.ymin, c["Y"]), ymax |-> b.ymax,
     zmin |-> Min(b.zmin, c["Z"]), zmax |-> b.zmax]
extend(b, c) == [xmin |-> Min(b.xmin, c["X"]), xmax |-> Max(b.xmax, c["X"]),
                 ymin |-> Min(b.ymin, c["Y"]), ymax |-> Max(b.ymax, c["Y"]),
                 zmin |-> Min(b.zmin, c["Z"]), zmax |-> Max(b.zmax, c["Z"])]

extend_bbox(b, c) == IF b = None THEN Some(BBox(c)) ELSE Some(extend(b[1], c))

\* math.sqrt, rounded down to a whole number.
Abs(a) == IF a < 0 THEN -a ELSE a
RECURSIVE SqrtBetween(_, _, _)
SqrtBetween(d, lo, hi) ==
    IF lo >= hi THEN lo
    ELSE LET mid == (lo + hi + 1) \div 2
         IN  IF mid * mid <= d THEN SqrtBetween(d, mid, hi)
             ELSE SqrtBetween(d, lo, mid - 1)

\* The r in 0..hi with r * r <= d < (r + 1) * (r + 1); hi is at least that r.
Sqrt(d, hi) == SqrtBetween(d, 0, hi)

\* calcMetrics, lines 137-140: the length of a segment from coords to c.
SegDistance(c, coords) ==
    LET dx == c["X"] - coords["X"]
        dy == c["Y"] - coords["Y"]
        dz == c["Z"] - coords["Z"]
    IN  Sqrt(dx * dx + dy * dy + dz * dz, Abs(dx) + Abs(dy) + Abs(dz))

\* calcMetrics, lines 136-147: the segment loop of one layer from its k-th
\* segment on.  st is [segs, coords, dist, extr, bbox]: the Segment objects,
\* the running coordinates, the layer's sums and the bounding box.
RECURSIVE LayerLoop(_, _, _)
LayerLoop(refs, k, st) ==
    IF k > Len(refs) THEN st
    ELSE LET i   == refs[k]
             seg == st.segs[i]
             d   == SegDistance(seg.coords, st.coords)
             e   == seg.coords["E"] - st.coords["E"]
             seg2 == [type |-> seg.type, coords |-> seg.coords,
                      lineNb |-> seg.lineNb, line |-> seg.line,
                      style |-> seg.style, layerIdx |-> seg.layerIdx,
                      distance |-> d, extrudate |-> e]
         IN  LayerLoop(refs, k + 1,
                       [segs   |-> [st.segs EXCEPT ![i] = seg2],
                        coords |-> seg.coords,
                        dist   |-> st.dist + d,
                        extr   |-> st.extr + e,
                        bbox   |-> extend_bbox(st.bbox, seg.coords)])

\* calcMetrics, lines 130-150: the layer loop from layer j on.  m is
\* [segs, layers, distance, extrudate, bbox]; st is the state the segment loop
\* of layer j ends in.
\* (LayerDoneOverwrites: the faulty variant that sets the totals to the sums
\* of the layer instead of adding them.)
RECURSIVE MetricsFrom(_, _)
LayerDoneOverwrites(j, m, st) ==
    MetricsFrom(j + 1,
                [segs      |-> st.segs,
                 layers    |-> [m.layers EXCEPT ![j] =
                                   [Z |-> @.Z, segments |-> @.segments, start |-> @.start,
                                    distance |-> st.dist, extrudate |-> st.extr]],
                 distance  |-> st.dist,
                 extrudate |-> st.extr,
                 bbox      |-> st.bbox])

LayerDone(j, m, st) ==
    MetricsFrom(j + 1,
                [segs      |-> st.segs,
                 layers    |-> [m.layers EXCEPT ![j] =
                                   [Z |-> @.Z, segments |-> @.segments, start |-> @.start,
                                    distance |-> st.dist, extrudate |-> st.extr]],
                 distance  |-> m.distance + st.dist,
                 extrudate |-> m.extrudate + st.extr,
                 bbox      |-> st.bbox])

MetricsFrom(j, m) ==
    IF j > Len(m.layers) THEN m
    ELSE LayerDone(j, m,
                   LayerLoop(m.layers[j].segments, 1,
                             [segs   |-> m.segs,
                              coords |-> m.layers[j].start,
                              dist   |-> 0,
                              extr   |-> 0,
                              bbox   |-> extend_bbox(m.bbox, m.layers[j].start)]))

\* (calcMetricsBoxAtOrigin: the faulty variant that starts from a box at the
\* origin.)
calcMetricsBoxAtOrigin(segs, ls) ==
    MetricsFrom(1, [segs |-> segs, layers |-> ls,
                    distance |-> 0, extrudate |-> 0, bbox |-> Some(BBox(ZeroCoords))])
calcMetrics(segs, ls) ==
    MetricsFrom(1, [segs |-> segs, layers |-> ls,
                    distance |-> 0, extrudate |-> 0, bbox |-> None])

\* postProcess: classifySegments, splitLayers, calcMetrics, in this order.
postProcess(segs) ==
    LET classified == classifySegments(segs)
    IN  calcMetrics(classified, splitLayers(classified))

-----------------------------------------------------------------------------
(* GcodeParser: the line loop of parseString and the handlers *)

\* The lines the input text is drawn from (comments already stripped).
InterpLines ==
    { Cmd("G1", <<Bit("X", 5)>>),
      Cmd("G1", <<Bit("X", 5), Bit("E", 1)>>),
      Cmd("G1", <<Bit("Z", 2), Bit("E", 1)>>),
      Cmd("G1", <<Bit("A", 1), Bit("Z", 2)>>),
      Cmd("G0", <<Bit("Y", 3), Bit("F", 100)>>),
      Cmd("G92", <<>>),
      Cmd("G92", <<Bit("X", 0)>>),
      Cmd("G92", <<Bit("E", 3)>>),
      Cmd("G92", <<Bit("F", 7), Bit("Y", 1)>>),
      Cmd("G90", <<>>),
      Cmd("G91", <<>>),
      Cmd("G20", <<>>),
      Cmd("G21", <<>>),
      Cmd("G28", <<>>),
      Cmd("M3", <<Bit("S", 20000)>>) }

\* The codes for which GcodeParser has a parse_<code> method (hasattr, line 273).
KnownCodes == {"G0", "G1", "G20", "G21", "G28", "G90", "G91", "G92"}

Warning(n, msg, what) == [lineNb |-> n, msg |-> msg, what |-> what]

\* The model state a handler reads and writes, for the history.
Snapshot(rel, off, isRel, segs, warns) ==
    [relative |-> rel, offset |-> off, isRelative |-> isRel,
     nseg |-> Len(segs), nwarn |-> Len(warns)]

postVars == <<layers, distance, extrudate, bbox>>

\* parse_G0 / parse_G1 -> do_G1
\* (parse_G1SkipsEmpty: the faulty variant that records no segment for a
\* move that names no axis of the machine.)
parse_G1SkipsEmpty(l) ==
    /\ l.code \in {"G0", "G1"}
    /\ LET args   == parseArgs(l.bits)
           coords == G1Coords(relative, isRelative, args)
       IN  /\ segments' = IF \E k \in 1..Len(args) : args[k][1] \in Axes
                          THEN Append(segments,
                                      Segment(l.code, Absolute(offset, coords), lineNb + 1, l))
                          ELSE segments
           /\ relative' = coords
           /\ warnings' = warnings \o UnknownAxisWarnings(args, Axes, lineNb + 1)
    /\ UNCHANGED <<offset, isRelative, raised, pc>>

parse_G1(l) ==
    /\ l.code \in {"G0", "G1"}
    /\ LET args   == parseArgs(l.bits)
           coords == G1Coords(relative, isRelative, args)
       IN  /\ segments' = Append(segments,
                                 Segment(l.code, Absolute(offset, coords), lineNb + 1, l))
           /\ relative' = coords
           /\ warnings' = warnings \o UnknownAxisWarnings(args, Axes, lineNb + 1)
    /\ UNCHANGED <<offset, isRelative, raised, pc>>

\* parse_G20 -> error: the exception leaves parseString.
\* (parse_G20Continues: the faulty variant that reports and goes on.)
parse_G20Continues(l) ==
    /\ l.code = "G20"
    /\ raised' = Some([lineNb |-> lineNb + 1, line |-> l,
                       msg |-> "Unsupported & incompatible: G20 (Inches)"])
    /\ UNCHANGED <<relative, offset, isRelative, segments, warnings, pc>>

parse_G20(l) ==
    /\ l.code = "G20"
    /\ raised' = Some([lineNb |-> lineNb + 1, line |-> l,
                       msg |-> "Unsupported & incompatible: G20 (Inches)"])
    /\ pc' = "aborted"
    /\ UNCHANGED <<relative, offset, isRelative, segments, warnings>>

parse_G21(l) ==
    /\ l.code = "G21"
    /\ UNCHANGED <<relative, offset, isRelative, segments, warnings, raised, pc>>

\* parse_G28 -> do_G28
\* (parse_G28Homes: the faulty variant that moves the axes home.)
parse_G28Homes(l) ==
    /\ l.code = "G28"
    /\ relative' = [relative EXCEPT !["X"] = 0, !["Y"] = 0, !["Z"] = 0]
    /\ warnings' = warnings
    /\ UNCHANGED <<offset, isRelative, segments, raised, pc>>

parse_G28(l) ==
    /\ l.code = "G28"
    /\ warnings' = Append(warnings, Warning(lineNb + 1, "G28 unimplemented", ""))
    /\ UNCHANGED <<relative, offset, isRelative, segments, raised, pc>>

\* parse_G90 -> setRelative(False)
parse_G90(l) ==
    /\ l.code = "G90"
    /\ isRelative' = FALSE
    /\ UNCHANGED <<relative, offset, segments, warnings, raised, pc>>

\* parse_G91 -> setRelative(True)
parse_G91(l) ==
    /\ l.code = "G91"
    /\ isRelative' = TRUE
    /\ UNCHANGED <<relative, offset, segments, warnings, raised, pc>>

\* parse_G92 -> do_G92
parse_G92(l) ==
    /\ l.code = "G92"
    /\ LET args == G92Args(parseArgs(l.bits))
           st   == G92Loop([offset |-> offset, relative |-> relative], args)
       IN  /\ offset' = st.offset
           /\ relative' = st.relative
           /\ warnings' = warnings \o UnknownAxisWarnings(args, OffsetAxes, lineNb + 1)
    /\ UNCHANGED <<isRelative, segments, raised, pc>>

\* parseLine, lines 275-276: no parse_<code> method.
UnknownCode(l) ==
    /\ l.code \notin KnownCodes
    /\ warnings' = Append(warnings, Warning(lineNb + 1, "Unknown code", l.code))
    /\ UNCHANGED <<relative, offset, isRelative, segments, raised, pc>>

\* One iteration of the line loop of parseString (lines 247-250) on line l.
ParseLine(l) ==
    /\ pc = "parsing"
    /\ lineNb < MaxLines
    /\ lineNb' = lineNb + 1
    /\ line' = l
    /\ \/ parse_G1(l)
       \/ parse_G20(l)
       \/ parse_G21(l)
       \/ parse_G28(l)
       \/ parse_G90(l)
       \/ parse_G91(l)
       \/ parse_G92(l)
       \/ UnknownCode(l)
    /\ log' = Append(log, [line   |-> l,
                           args   |-> parseArgs(l.bits),
                           before |-> Snapshot(relative, offset, isRelative, segments, warnings),
                           after  |-> Snapshot(relative', offset', isRelative', segments', warnings'),
                           pc     |-> pc'])
    /\ UNCHANGED postVars
    /\ UNCHANGED calls
    /\ UNCHANGED <<mergerVars, generatorVars>>

\* The end of the input: parseString lines 251-252, postProcess and return.
PostProcess ==
    /\ pc = "parsing"
    /\ \E m \in {postProcess(segments)} :
           /\ segments' = m.segs
           /\ layers' = Some(m.layers)
           /\ distance' = Some(m.distance)
           /\ extrudate' = Some(m.extrudate)
           /\ bbox' = m.bbox
    /\ pc' = "done"
    /\ UNCHANGED <<lineNb, line, relative, offset, isRelative, warnings, raised, log, calls>>
    /\ UNCHANGED <<mergerVars, generatorVars>>

\* No call of optimize_gcode is under way.
MergerIdle ==
    /\ mpc = "idle"
    /\ optimized_lines = <<>>
    /\ buffer_line = None
    /\ last_cmd_type = None
    /\ result = None
    /\ mlog = <<>>

\* No call of the generator is under way.
GeneratorIdle ==
    /\ gpc = "idle"
    /\ params = None
    /\ image_array = None
    /\ total_passes = None
    /\ pass_i = 0
    /\ pass_depth = None
    /\ y = 0
    /\ lines = <<>>
    /\ glog = <<>>
    /\ gresult = None

\* A call, parseString(text) or parseFile(path), on a parser.
Call(entry) == [entry |-> entry, from |-> Len(log)]

\* GcodeParser.__init__ and the first call on the parser up to its line
\* loop (parseString lines 244-246, parseFile lines 230-231).
FirstCall(entry) ==
    /\ MergerIdle
    /\ GeneratorIdle
    /\ calls = << [entry |-> entry, from |-> 0] >>
    /\ pc = "parsing"
    /\ lineNb = 0
    /\ line = None
    /\ relative = ZeroCoords
    /\ offset = ZeroOffset
    /\ isRelative = FALSE
    /\ segments = <<>>
    /\ layers = None
    /\ distance = None
    /\ extrudate = None
    /\ bbox = None
    /\ warnings = <<>>
    /\ raised = None
    /\ log = <<>>

Init == FirstCall("parseString")

Next ==
    \/ \E l \in InterpLines : ParseLine(l)
    \/ PostProcess

Spec == Init /\ [][Next]_vars

\* The lines of the texts on which layers, totals and the bounding box are
\* examined: moves with and without flow, in both directions of X, a change
\* of Z with and without flow, a datum reset of E and relative mode.
LayerLines ==
    { Cmd("G1", <<Bit("X", 5)>>),
      Cmd("G1", <<Bit("X", 5), Bit("E", 1)>>),
      Cmd("G1", <<Bit("Z", 2), Bit("E", 1)>>),
      Cmd("G1", <<Bit("X", -4), Bit("Z", 1)>>),
      Cmd("G0", <<Bit("Y", 3), Bit("F", 100)>>),
      Cmd("G92", <<Bit("E", 3)>>),
      Cmd("G91", <<>>) }

NextLayers ==
    \/ \E l \in LayerLines : ParseLine(l)
    \/ PostProcess

SpecLayers == Init /\ [][NextLayers]_vars

\* The lines of the texts on which the arguments of a move are examined:
\* moves without argument, with an unknown axis only, with and without a
\* feed, words that are no number after their letter ("X", "E",
\* "Z--1.000"), both modes, the command that aborts and an unknown code.
NoNumber(l) == [letter |-> l, num |-> None]
ArgLines ==
    { Cmd("G1", <<>>),
      Cmd("G0", <<Bit("A", 1)>>),
      Cmd("G1", <<Bit("X", 5), Bit("F", 100)>>),
      Cmd("G0", <<Bit("Y", 3)>>),
      Cmd("G1", <<NoNumber("X")>>),
      Cmd("G1", <<Bit("X", 5), NoNumber("Z"), Bit("F", 300)>>),
      Cmd("G92", <<NoNumber("E")>>),
      Cmd("G90", <<>>),
      Cmd("G91", <<>>),
      Cmd("G20", <<>>),
      Cmd("M3", <<Bit("S", 20000)>>) }

NextArgs ==
    \/ \E l \in ArgLines : ParseLine(l)
    \/ PostProcess

SpecArgs == Init /\ [][NextArgs]_vars

\* The lines of the texts given to one parser in several calls: a move,
\* relative mode, a datum reset and the command that aborts.
CallLines ==
    { Cmd("G1", <<Bit("X", 5)>>),
      Cmd("G91", <<>>),
      Cmd("G92", <<Bit("X", 0)>>),
      Cmd("G20", <<>>) }

Entries == {"parseString", "parseFile"}

\* One iteration of the line loop of the call under way; the texts of all
\* calls have MaxLines lines together.
ParseCallLine(l) ==
    /\ Len(log) < MaxLines
    /\ ParseLine(l)

\* parseString, lines 244-246, on a parser whose last call returned or
\* raised: a new GcodeModel, lineNb = 0.
CallParseString ==
    /\ pc \in {"done", "aborted"}
    /\ Len(calls) < MaxCalls
    /\ calls' = Append(calls, Call("parseString"))
    /\ pc' = "parsing"
    /\ lineNb' = 0
    /\ relative' = ZeroCoords
    /\ offset' = ZeroOffset
    /\ isRelative' = FALSE
    /\ segments' = <<>>
    /\ layers' = None
    /\ distance' = None
    /\ extrudate' = None
    /\ bbox' = None
    /\ raised' = None
    /\ UNCHANGED <<line, warnings, log>>
    /\ UNCHANGED <<mergerVars, generatorVars>>

\* parseFile, lines 230-231, on a parser whose last call returned or raised:
\* lineNb = 0; self.model is the model of the calls before.
CallParseFile ==
    /\ pc \in {"done", "aborted"}
    /\ Len(calls) < MaxCalls
    /\ calls' = Append(calls, Call("parseFile"))
    /\ pc' = "parsing"
    /\ lineNb' = 0
    /\ raised' = None
    /\ UNCHANGED <<relative, offset, isRelative, segments, postVars>>
    /\ UNCHANGED <<line, warnings, log>>
    /\ UNCHANGED <<mergerVars, generatorVars>>

InitCalls == \E e \in Entries : FirstCall(e)

NextCalls ==
    \/ \E l \in CallLines : ParseCallLine(l)
    \/ PostProcess
    \/ CallParseString
    \/ CallParseFile

SpecCalls == InitCalls /\ [][NextCalls]_vars

-----------------------------------------------------------------------------
(* Properties of the Motion Interpreter *)

IsMove(l) == l.code \in {"G0", "G1"}
\* The arguments of line i as parseArgs read them.
Given(i, a) == a \in DictKeys(log[i].args)
Value(i, a) == DictGet(log[i].args, a)
AbsOf(snap, a) == snap.offset[a] + snap.relative[a]

\* The segment a move line recorded: the last one of the list after the line.
SegmentOf(i) == segments[log[i].after.nseg]

\* C1: after any sequence of lines that leaves the absolute X at P, `G92 X0`
\* followed by a move with X5 records a segment whose absolute X is P + 5, in
\* absolute and in incremental mode.
C1_DatumResetContinuity ==
    \A i \in 2..Len(log) :
        ( /\ log[i-1].line = Cmd("G92", <<Bit("X", 0)>>)
          /\ IsMove(log[i].line)
          /\ Given(i, "X")
          /\ Value(i, "X") = 5 )
        => SegmentOf(i).coords["X"] = AbsOf(log[i-1].before, "X") + 5

\* C1 witness: the reset and the move happen in incremental mode at P # 0.
C1_Witness ==
    \E i \in 2..Len(log) :
        /\ log[i-1].line = Cmd("G92", <<Bit("X", 0)>>)
        /\ log[i].line = Cmd("G1", <<Bit("X", 5)>>)
        /\ log[i].before.isRelative
        /\ AbsOf(log[i-1].before, "X") # 0
        /\ SegmentOf(i).coords["X"] = AbsOf(log[i-1].before, "X") + 5

\* C2: G92 never changes offset + relative of X, Y, Z, E; without arguments
\* the relative X, Y, Z, E become 0; with arguments the relative coordinate of
\* each given axis becomes the given value and an axis not given keeps its
\* offset and its relative value; G92 adds no segment.
C2_DatumResetKeepsAbsolute ==
    \A i \in 1..Len(log) :
        log[i].line.code = "G92" =>
            LET l == log[i].line
                b == log[i].before
                a == log[i].after
            IN  /\ \A ax \in OffsetAxes : AbsOf(a, ax) = AbsOf(b, ax)
                /\ l.bits = <<>> => \A ax \in OffsetAxes : a.relative[ax] = 0
                /\ l.bits # <<>> =>
                       \A ax \in OffsetAxes :
                           IF Given(i, ax)
                           THEN a.relative[ax] = Value(i, ax)
                           ELSE /\ a.relative[ax] = b.relative[ax]
                                /\ a.offset[ax] = b.offset[ax]
                /\ a.nseg = b.nseg

\* C2 witness: a G92 with an argument, and one without, each moved an offset.
C2_Witness ==
    /\ \E i \in 1..Len(log) :
           /\ log[i].line = Cmd("G92", <<Bit("E", 3)>>)
           /\ log[i].before.relative["E"] # 0
           /\ log[i].after.offset["E"] # log[i].before.offset["E"]
    /\ \E i \in 1..Len(log) :
           /\ log[i].line = Cmd("G92", <<>>)
           /\ log[i].after.offset # log[i].before.offset

\* The coordinate mode the lines before line i select: that of the last
\* G90/G91 among them, absolute when there is none.
RECURSIVE ModeBefore(_)
ModeBefore(i) ==
    IF i = 1 THEN FALSE
    ELSE IF log[i-1].line.code = "G91" THEN TRUE
    ELSE IF log[i-1].line.code = "G90" THEN FALSE
    ELSE ModeBefore(i - 1)

\* C3: a G0/G1 move sets the relative coordinate of a given axis X, Y, Z, E to
\* old + value after G91 and to value after G90 or by default, leaves an
\* absent axis unchanged, records absolute = offset + relative (after the
\* update) in its segment, and changes no offset.
C3_MoveUpdate ==
    \A i \in 1..Len(log) :
        IsMove(log[i].line) =>
            LET l == log[i].line
                b == log[i].before
                a == log[i].after
            IN  /\ \A ax \in OffsetAxes :
                       /\ a.relative[ax] =
                              IF Given(i, ax)
                              THEN (IF ModeBefore(i) THEN b.relative[ax] + Value(i, ax)
                                    ELSE Value(i, ax))
                              ELSE b.relative[ax]
                       /\ SegmentOf(i).coords[ax] = a.offset[ax] + a.relative[ax]
                /\ a.offset = b.offset

\* C3 witness: an incremental move in X from a non-zero coordinate.
C3_Witness ==
    \E i \in 1..Len(log) :
        /\ IsMove(log[i].line)
        /\ ModeBefore(i)
        /\ Given(i, "X")
        /\ ~Given(i, "E")
        /\ log[i].before.relative["X"] = 5
        /\ log[i].after.relative["X"] = 10
        /\ SegmentOf(i).coords["X"] = 10

\* C4: a G20 line at line N aborts: the exception names line N and the text
\* of that line, no model is returned, post-processing does not run, the
\* line adds no segment and no later line is processed.
C4_InchesAbort ==
    \A i \in 1..Len(log) :
        log[i].line.code = "G20" =>
            /\ i = Len(log)
            /\ log[i].pc = "aborted"
            /\ pc = "aborted"
            /\ raised # None
            /\ raised[1].lineNb = i
            /\ raised[1].line = log[i].line
            /\ lineNb = i
            /\ Len(segments) = log[i].before.nseg
            /\ layers = None /\ distance = None /\ extrudate = None /\ bbox = None

\* C4 witness: the abort happens at a line N > 1, after a move was recorded.
C4_Witness ==
    /\ pc = "aborted"
    /\ Len(log) > 2
    /\ log[Len(log)].line.code = "G20"
    /\ segments # <<>>
    /\ raised[1].lineNb = Len(log)

\* C5: an unknown command token, G21 and G28 never abort and have no state
\* effect: relative coordinates, offsets, the mode flag and the segment list
\* are unchanged, and the line loop goes on.
NoEffectLine(l) == l.code \notin KnownCodes \/ l.code \in {"G21", "G28"}

C5_NoStateEffect ==
    \A i \in 1..Len(log) :
        NoEffectLine(log[i].line) =>
            /\ log[i].after.relative = log[i].before.relative
            /\ log[i].after.offset = log[i].before.offset
            /\ log[i].after.isRelative = log[i].before.isRelative
            /\ log[i].after.nseg = log[i].before.nseg
            /\ log[i].pc = "parsing"
            /\ raised = None \/ raised[1].lineNb # i

\* C5 witness: a G28 line met non-zero coordinates, and a move was processed
\* after it.
C5_Witness ==
    \E i \in 1..Len(log) :
        /\ log[i].line.code = "G28"
        /\ log[i].before.relative # ZeroCoords
        /\ i < Len(log)
        /\ IsMove(log[Len(log)].line)
        /\ Len(segments) = 2

\* C6: an unknown axis letter on a move or on G92 (for G92 also F) is
\* recoverable: no abort, every known axis of the line is applied, a move
\* records exactly one segment, and nothing else changes; the letter is
\* reported by a warning.
HasUnknownAxis(i) ==
    \/ IsMove(log[i].line) /\ \E k \in DictKeys(log[i].args) : k \notin Axes
    \/ log[i].line.code = "G92" /\ \E k \in DictKeys(log[i].args) : k \notin OffsetAxes

C6_UnknownAxisRecoverable ==
    \A i \in 1..Len(log) :
        HasUnknownAxis(i) =>
            LET l == log[i].line
                b == log[i].before
                a == log[i].after
            IN  /\ log[i].pc = "parsing"
                /\ a.nwarn > b.nwarn
                /\ a.isRelative = b.isRelative
                /\ IsMove(l) =>
                       /\ a.nseg = b.nseg + 1
                       /\ a.offset = b.offset
                       /\ \A ax \in Axes :
                              a.relative[ax] =
                                  IF Given(i, ax)
                                  THEN (IF b.isRelative THEN b.relative[ax] + Value(i, ax)
                                        ELSE Value(i, ax))
                                  ELSE b.relative[ax]
                /\ l.code = "G92" =>
                       /\ a.nseg = b.nseg
                       /\ a.relative["F"] = b.relative["F"]
                       /\ \A ax \in OffsetAxes :
                              IF Given(i, ax)
                              THEN /\ a.relative[ax] = Value(i, ax)
                                   /\ a.offset[ax] = b.offset[ax] + b.relative[ax] - Value(i, ax)
                              ELSE /\ a.relative[ax] = b.relative[ax]
                                   /\ a.offset[ax] = b.offset[ax]

\* C6 witness: `G1 A1 Z2` moved Z, and `G92 F7 Y1` reset Y and left a
\* non-zero feed value alone.
C6_Witness ==
    /\ \E i \in 1..Len(log) :
           /\ log[i].line = Cmd("G1", <<Bit("A", 1), Bit("Z", 2)>>)
           /\ log[i].after.relative["Z"] # log[i].before.relative["Z"]
    /\ \E i \in 1..Len(log) :
           /\ log[i].line = Cmd("G92", <<Bit("F", 7), Bit("Y", 1)>>)
           /\ log[i].before.relative["F"] = 100
           /\ log[i].after.offset["Y"] # log[i].before.offset["Y"]

\* The absolute coordinates before segment i: those of segment i-1, all
\* zeros before the first.
PrevCoords(i) == IF i = 1 THEN ZeroCoords ELSE segments[i-1].coords
PrevLayerIdx(i) == IF i = 1 THEN 0 ELSE segments[i-1].layerIdx

\* C7: after post-processing every segment has exactly one of the four
\* styles: retract when X and Y are unchanged and E decreased, restore when X
\* and Y are unchanged and E increased, extrude when X or Y changed and E
\* increased, fly in every other case.
C7_Classification ==
    pc = "done" =>
        \A i \in 1..Len(segments) :
            LET c == segments[i].coords
                p == PrevCoords(i)
                sameXY == c["X"] = p["X"] /\ c["Y"] = p["Y"]
                st == segments[i].style
            IN  /\ st \in {"fly", "extrude", "retract", "restore"}
                /\ st = "retract" <=> (sameXY /\ c["E"] < p["E"])
                /\ st = "restore" <=> (sameXY /\ c["E"] > p["E"])
                /\ st = "extrude" <=> (~sameXY /\ c["E"] > p["E"])
                /\ st = "fly" <=> (c["E"] = p["E"] \/ (~sameXY /\ c["E"] < p["E"]))

\* C7 witness: one stream with an extrude, a retract and a fly.
C7_Witness ==
    /\ pc = "done"
    /\ \E i \in 1..Len(segments) : segments[i].style = "retract"
    /\ \E i \in 1..Len(segments) : segments[i].style = "extrude"
    /\ \E i \in 1..Len(segments) : segments[i].style = "fly"

\* C7, further witness states: a restore, and a fly that moved in X or Y
\* while E decreased.
C7_WitnessRestore ==
    /\ pc = "done"
    /\ \E i \in 1..Len(segments) : segments[i].style = "restore"

C7_WitnessFlyOnDecrease ==
    /\ pc = "done"
    /\ \E i \in 1..Len(segments) :
           /\ segments[i].style = "fly"
           /\ segments[i].coords["X"] # PrevCoords(i)["X"]
           /\ segments[i].coords["E"] < PrevCoords(i)["E"]

\* The tracked layer Z before segment i: the Z of the last segment before i
\* at which the layer index rose, 0 when there is none.
RECURSIVE TrackedZ(_)
TrackedZ(i) ==
    IF i = 1 THEN 0
    ELSE IF segments[i-1].layerIdx # PrevLayerIdx(i-1) THEN segments[i-1].coords["Z"]
    ELSE TrackedZ(i - 1)

\* C8: the layer index starts at 0 with tracked Z 0 and rises by exactly 1 at
\* a segment iff its E is greater than the previous segment's and its Z
\* differs from the tracked layer Z (which becomes the segment's Z); it
\* changes in no other way.
C8_LayerIndex ==
    pc = "done" =>
        \A i \in 1..Len(segments) :
            LET c == segments[i].coords
                starts == c["E"] > PrevCoords(i)["E"] /\ c["Z"] # TrackedZ(i)
            IN  segments[i].layerIdx = PrevLayerIdx(i) + (IF starts THEN 1 ELSE 0)

\* C8 witness: a second layer was opened, and a later flow-increasing segment
\* at the tracked Z (not 0) stayed in its layer.
C8_Witness ==
    /\ pc = "done"
    /\ \E i \in 2..Len(segments) :
           /\ segments[i].coords["E"] > PrevCoords(i)["E"]
           /\ segments[i].coords["Z"] = TrackedZ(i)
           /\ TrackedZ(i) # 0
           /\ segments[i].layerIdx = segments[i-1].layerIdx
           /\ segments[i].layerIdx >= 1

\* C8, second witness state: layer index 2 is reached.
C8_WitnessTwoLayers ==
    /\ pc = "done"
    /\ \E i \in 1..Len(segments) : segments[i].layerIdx = 2


\* The segment indices of layers j.. of ls, one after the other.
RECURSIVE LayerRefs(_, _)
LayerRefs(ls, j) ==
    IF j > Len(ls) THEN <<>> ELSE ls[j].segments \o LayerRefs(ls, j + 1)

LastOf(q) == q[Len(q)]

\* C28: after post-processing the segment lists of the layers, one after the
\* other in layer order, are the segment list of the model; every layer has
\* a segment and all its segments have one layer index; adjacent layers have
\* different layer indices; the start snapshot of the first layer is all
\* zeros and that of every other layer is the coordinates of the last
\* segment of the layer before it, which are the coordinates before its own
\* first segment.
C28_LayersPartitionSegments ==
    pc = "done" =>
        LET ls == layers[1]
        IN  /\ LayerRefs(ls, 1) = [i \in 1..Len(segments) |-> i]
            /\ \A j \in 1..Len(ls) :
                   /\ ls[j].segments # <<>>
                   /\ \A k \in 1..Len(ls[j].segments) :
                          segments[ls[j].segments[k]].layerIdx
                              = segments[ls[j].segments[1]].layerIdx
                   /\ ls[j].start = PrevCoords(ls[j].segments[1])
                   /\ j = 1 => ls[j].start = ZeroCoords
                   /\ j > 1 =>
                          /\ ls[j].start = segments[LastOf(ls[j-1].segments)].coords
                          /\ segments[ls[j].segments[1]].layerIdx
                                 # segments[LastOf(ls[j-1].segments)].layerIdx

\* C28 witness: three segments in two layers, the second of which starts
\* away from the origin.
C28_Witness ==
    /\ pc = "done"
    /\ Len(segments) = 3
    /\ Len(layers[1]) = 2
    /\ layers[1][1].segments = <<1, 2>>
    /\ layers[1][2].segments = <<3>>
    /\ layers[1][2].start # ZeroCoords

\* C39: after post-processing the Z of every layer is the Z of its start
\* snapshot, the Z before the layer's first segment (0 for the first layer),
\* whatever the Z of that segment is.
C39_LayerZIsStartZ ==
    pc = "done" =>
        \A j \in 1..Len(layers[1]) :
            LET ly == layers[1][j]
            IN  /\ ly.Z = ly.start["Z"]
                /\ ly.Z = PrevCoords(ly.segments[1])["Z"]
                /\ j = 1 => ly.Z = 0
                /\ j > 1 => ly.Z = segments[LastOf(layers[1][j-1].segments)].coords["Z"]

\* C39 witness: a second layer was opened by a segment at Z = 2 while the
\* Z before it was 0, and the layer has Z = 0.
C39_Witness ==
    /\ pc = "done"
    /\ Len(layers[1]) >= 2
    /\ segments[layers[1][2].segments[1]].coords["Z"] = 2
    /\ layers[1][2].start["Z"] = 0
    /\ layers[1][2].Z = 0

RECURSIVE SumLayers(_, _, _)
SumLayers(ls, f, j) ==
    IF j > Len(ls) THEN 0 ELSE ls[j][f] + SumLayers(ls, f, j + 1)

RECURSIVE SumSegments(_, _)
SumSegments(f, i) ==
    IF i > Len(segments) THEN 0 ELSE segments[i][f] + SumSegments(f, i + 1)

\* C29: after post-processing the flow total of the stream is the sum of
\* the flow of the layers, the sum of the flow of the segments and the
\* absolute E of the last segment (0 with no segment), the flow of a segment
\* being its E minus the E of the segment before it (0 before the first);
\* and the distance of the stream is the sum of the distances of the layers
\* and the sum of the lengths of the segments, the length of a segment
\* being measured from the end of the segment before it (the origin before
\* the first).
C29_TotalsAreSums ==
    pc = "done" =>
        /\ extrudate[1] = SumLayers(layers[1], "extrudate", 1)
        /\ extrudate[1] = SumSegments("extrudate", 1)
        /\ extrudate[1] = (IF segments = <<>> THEN 0 ELSE LastOf(segments).coords["E"])
        /\ distance[1] = SumLayers(layers[1], "distance", 1)
        /\ distance[1] = SumSegments("distance", 1)
        /\ \A i \in 1..Len(segments) :
               /\ segments[i].extrudate = segments[i].coords["E"] - PrevCoords(i)["E"]
               /\ segments[i].distance = SegDistance(segments[i].coords, PrevCoords(i))

\* C29 witness: two layers with flow and distance in each, after a datum
\* reset of E.
C29_Witness ==
    /\ pc = "done"
    /\ Len(layers[1]) = 2
    /\ layers[1][1].extrudate > 0 /\ layers[1][2].extrudate > 0
    /\ layers[1][1].distance > 0 /\ layers[1][2].distance > 0
    /\ extrudate[1] = layers[1][1].extrudate + layers[1][2].extrudate
    /\ offset["E"] # 0

\* The points the bounding box has to cover: the state before the first
\* move and the end of every segment.
BoxPoints == {ZeroCoords} \cup {segments[i].coords : i \in 1..Len(segments)}

\* C30: after post-processing a stream with at least one move, the bounding
\* box contains the X, Y and Z of the end of every segment and of the state
\* before the first move (0, 0, 0), so each lower bound is at most 0 and each
\* upper bound at least 0, and each of the six bounds is the coordinate of
\* one of those points.
C30_BoundingBoxCoverage ==
    (pc = "done" /\ segments # <<>>) =>
        /\ bbox # None
        /\ \A p \in BoxPoints :
               /\ bbox[1].xmin <= p["X"] /\ p["X"] <= bbox[1].xmax
               /\ bbox[1].ymin <= p["Y"] /\ p["Y"] <= bbox[1].ymax
               /\ bbox[1].zmin <= p["Z"] /\ p["Z"] <= bbox[1].zmax
        /\ bbox[1].xmin <= 0 /\ 0 <= bbox[1].xmax
        /\ bbox[1].ymin <= 0 /\ 0 <= bbox[1].ymax
        /\ bbox[1].zmin <= 0 /\ 0 <= bbox[1].zmax
        /\ \E p \in BoxPoints : p["X"] = bbox[1].xmin
        /\ \E p \in BoxPoints : p["X"] = bbox[1].xmax
        /\ \E p \in BoxPoints : p["Y"] = bbox[1].ymin
        /\ \E p \in BoxPoints : p["Y"] = bbox[1].ymax
        /\ \E p \in BoxPoints : p["Z"] = bbox[1].zmin
        /\ \E p \in BoxPoints : p["Z"] = bbox[1].zmax

\* C30 witness: the moves end on both sides of X = 0 and all above Z = 0,
\* so the lower bound of Z is that of the state before the first move.
C30_Witness ==
    /\ pc = "done"
    /\ Len(segments) = 3
    /\ bbox[1].xmin = -4 /\ bbox[1].xmax = 5
    /\ bbox[1].zmin = 0 /\ bbox[1].zmax = 2
    /\ \A i \in 1..Len(segments) : segments[i].coords["Z"] > 0
\* The lines before line i that are moves with an F word.
FeedLinesBefore(i) ==
    { j \in 1..(i - 1) : IsMove(log[j].line) /\ Given(j, "F") }

\* C32: the feed recorded in the segment of a move without an F word is the
\* feed of the move before it, 0 when no move before it had an F word; with
\* an F word it is the value of the word in absolute mode and the feed
\* before plus the value in relative mode; no other command changes the
\* feed.
C32_FeedHandling ==
    \A i \in 1..Len(log) :
        LET b    == log[i].before
            a    == log[i].after
            prev == IF b.nseg = 0 THEN 0 ELSE segments[b.nseg].coords["F"]
        IN  /\ b.relative["F"] = prev
            /\ FeedLinesBefore(i) = {} => prev = 0
            /\ IsMove(log[i].line) =>
                   SegmentOf(i).coords["F"] =
                       IF ~Given(i, "F") THEN prev
                       ELSE IF ModeBefore(i) THEN prev + Value(i, "F")
                       ELSE Value(i, "F")
            /\ ~IsMove(log[i].line) => a.relative["F"] = b.relative["F"]

\* C32 witness: after G91 two moves with F100 have the feeds 100 and 200,
\* and a move without an F word after them has the feed 200.
C32_Witness ==
    /\ Len(log) = 4
    /\ log[1].line.code = "G91"
    /\ \A i \in 2..3 : IsMove(log[i].line) /\ Given(i, "F") /\ Value(i, "F") = 100
    /\ IsMove(log[4].line) /\ ~Given(4, "F")
    /\ segments[1].coords["F"] = 100
    /\ segments[2].coords["F"] = 200
    /\ segments[3].coords["F"] = 200

\* The number of G0/G1 lines among the first i lines.
RECURSIVE MovesUpTo(_)
MovesUpTo(i) ==
    IF i = 0 THEN 0 ELSE MovesUpTo(i - 1) + (IF IsMove(log[i].line) THEN 1 ELSE 0)

\* C33: every G0/G1 line read adds exactly one segment, whatever its
\* arguments; the segment has the number of its line, counted from 1, and the
\* type G0 or G1 of its command; any other line adds none; so the segments
\* are in input order with increasing line numbers.
C33_OneSegmentPerMove ==
    /\ \A i \in 1..Len(log) :
           LET b == log[i].before
               a == log[i].after
           IN  IF IsMove(log[i].line)
               THEN /\ a.nseg = b.nseg + 1
                    /\ segments[a.nseg].lineNb = i
                    /\ segments[a.nseg].type = log[i].line.code
                    /\ segments[a.nseg].line = log[i].line
               ELSE a.nseg = b.nseg
    /\ Len(segments) = MovesUpTo(Len(log))
    /\ \A k \in 1..Len(segments) :
           /\ segments[k].lineNb >= 1
           /\ k > 1 => segments[k-1].lineNb < segments[k].lineNb

\* C33 witness: `G1` without argument on line 1, a relative-mode command on
\* line 2 and `G0 A1` on line 3 have given the segments of lines 1 and 3,
\* both at the origin.
C33_Witness ==
    /\ Len(log) = 3
    /\ log[1].line = Cmd("G1", <<>>)
    /\ log[2].line = Cmd("G91", <<>>)
    /\ log[3].line = Cmd("G0", <<Bit("A", 1)>>)
    /\ Len(segments) = 2
    /\ segments[1].lineNb = 1 /\ segments[1].type = "G1"
    /\ segments[2].lineNb = 3 /\ segments[2].type = "G0"
    /\ segments[2].coords = ZeroCoords

\* The last word of line i for axis a is no number after the letter.
RECURSIVE LastWord(_, _, _)
LastWord(bits, a, found) ==
    IF bits = <<>> THEN found
    ELSE LastWord(Tail(bits), a, IF Head(bits).letter = a THEN Some(Head(bits)) ELSE found)
NotANumber(i, a) ==
    LET w == LastWord(log[i].line.bits, a, None) IN w # None /\ w[1].num = None

\* C34: a word that is no number after its letter counts as the value 1: in
\* a move it sets the relative coordinate of its axis to 1 in absolute mode
\* and adds 1 to it in relative mode, and in a datum reset it sets the
\* relative coordinate to 1 and the offset so that the absolute coordinate
\* is kept; the line is read to its end without an exception, and without a
\* warning when all its letters are axes.
C34_NonNumberIsOne ==
    \A i \in 1..Len(log) : \A ax \in OffsetAxes :
        NotANumber(i, ax) =>
            LET b == log[i].before
                a == log[i].after
            IN  /\ log[i].pc = "parsing"
                /\ (\A k \in 1..Len(log[i].line.bits) :
                        log[i].line.bits[k].letter \in OffsetAxes \cup {"F"})
                   => a.nwarn = b.nwarn
                /\ IsMove(log[i].line) =>
                       /\ a.relative[ax] = IF ModeBefore(i) THEN b.relative[ax] + 1 ELSE 1
                       /\ SegmentOf(i).coords[ax] = a.offset[ax] + a.relative[ax]
                /\ log[i].line.code = "G92" =>
                       /\ a.relative[ax] = 1
                       /\ a.offset[ax] + 1 = b.offset[ax] + b.relative[ax]

\* C34 witness: `G92 E` has set the relative E to 1, `G1 X` has moved to the
\* relative X = 1, and `G1 X5 Z--1.000 F300` has moved to Z = 1.
C34_Witness ==
    /\ Len(log) = 3
    /\ log[1].line = Cmd("G92", <<NoNumber("E")>>)
    /\ log[1].after.relative["E"] = 1
    /\ log[1].after.offset["E"] = -1
    /\ log[2].line = Cmd("G1", <<NoNumber("X")>>)
    /\ log[2].after.relative["X"] = 1
    /\ log[3].line = Cmd("G1", <<Bit("X", 5), NoNumber("Z"), Bit("F", 300)>>)
    /\ segments[2].coords["Z"] = 1
    /\ segments[2].coords["E"] = 0

-----------------------------------------------------------------------------
(* optimize_gcode (gcode/postprocessor.py) *)

(***************************************************************************)
(* Text.  A line is [head, toks, pad]: its first word as a sequence of     *)
(* characters, the words after it, and whether blanks surround it.  A word *)
(* after the first is [letter, num]: its first character and the numeral   *)
(* that follows, Some([m, d]) for the integer m written with d decimals    *)
(* (m / 10^d: "5" is [5, 0], "5.000" is [5000, 3], "100.4" is [1004, 1]),  *)
(* None for text float() rejects.  A float is the integer number of        *)
(* ten-thousandths; zero and negative zero are not told apart.             *)
(***************************************************************************)
Num(m, d) == Some([m |-> m, d |-> d])
Tok(l, m, d) == [letter |-> l, num |-> Num(m, d)]
TextLine(head, toks) == [head |-> head, toks |-> toks, pad |-> FALSE]

RECURSIVE Pow10(_)
Pow10(n) == IF n = 0 THEN 1 ELSE 10 * Pow10(n - 1)

\* float(text) of a numeral
FloatOf(n) == n.m * Pow10(4 - n.d)

\* The nearest multiple of q to v, as a count of q (ties to even), as the
\* format specifications .3f and .0f round.
RoundDiv(v, q) ==
    LET lo == v \div q
        r  == v % q
    IN  IF 2 * r < q THEN lo
        ELSE IF 2 * r > q THEN lo + 1
        ELSE IF lo % 2 = 0 THEN lo ELSE lo + 1

\* f"{v:.3f}" and f"{v:.0f}": the numeral with d decimals.
\* (FormatKeepsDigits: the faulty variant that writes all four decimals.)
FormatKeepsDigits(v, d) == [m |-> v, d |-> 4]
Format(v, d) == [m |-> RoundDiv(v, Pow10(4 - d)), d |-> d]

\* str.strip and str.startswith
Strip(l) == [l EXCEPT !.pad = FALSE]
StartsWith(w, p) == Len(w) >= Len(p) /\ SubSeq(w, 1, Len(p)) = p

G1Head == <<"G", "1">>
G0Head == <<"G", "0">>

\* Lines 49-58: the fields of a G1 line, [x, y, z, f, err]; err when float()
\* raises ValueError.
NoFields == [x |-> None, y |-> None, z |-> None, f |-> None, err |-> FALSE]

SetField(fld, t) ==
    IF t.letter \notin {"X", "Y", "Z", "F"} THEN fld
    ELSE IF t.num = None THEN [fld EXCEPT !.err = TRUE]
    ELSE IF t.letter = "X" THEN [fld EXCEPT !.x = Some(FloatOf(t.num[1]))]
    ELSE IF t.letter = "Y" THEN [fld EXCEPT !.y = Some(FloatOf(t.num[1]))]
    ELSE IF t.letter = "Z" THEN [fld EXCEPT !.z = Some(FloatOf(t.num[1]))]
    ELSE [fld EXCEPT !.f = Some(FloatOf(t.num[1]))]

RECURSIVE ParseFieldsFrom(_, _)
ParseFieldsFrom(fld, toks) ==
    IF toks = <<>> \/ fld.err THEN fld
    ELSE ParseFieldsFrom(SetField(fld, Head(toks)), Tail(toks))

ParseFields(toks) == ParseFieldsFrom(NoFields, toks)

\* flush_buffer, lines 39-42: the line written for the buffered move b.
FlushLine(b) ==
    TextLine(G1Head,
             << [letter |-> "X", num |-> Some(Format(b.x[1], 3))],
                [letter |-> "Y", num |-> Some(Format(b.y[1], 3))],
                [letter |-> "Z", num |-> Some(Format(b.z[1], 3))] >>
             \o (IF b.f # None
                 THEN << [letter |-> "F", num |-> Some(Format(b.f[1], 0))] >>
                 ELSE <<>>))

\* The state of the loop: [out, buf, last, err] for optimized_lines,
\* buffer_line, last_cmd_type and whether an exception was raised.
\* flush_buffer, lines 35-43: formatting None with .3f raises TypeError.
\* (flush_bufferDrops: the faulty variant that forgets the pending move.)
flush_bufferDrops(st) == [st EXCEPT !.buf = None]
flush_buffer(st) ==
    IF st.buf = None THEN st
    ELSE IF st.buf[1].x = None \/ st.buf[1].y = None \/ st.buf[1].z = None
         THEN [st EXCEPT !.err = TRUE]
         ELSE [st EXCEPT !.out = Append(@, FlushLine(st.buf[1])), !.buf = None]

\* Lines 61-64, 74-77, 86-89 and 92-95: after flush_buffer (state t), emit
\* the stripped line and set last_cmd_type.
EmitAfterFlush(t, stripped, last) ==
    IF t.err THEN t
    ELSE [out |-> Append(t.out, stripped), buf |-> None, last |-> last, err |-> FALSE]

\* Line 73: the new move differs from the buffered one in Y, Z or F.
\* (DiffersIgnoresZ: the faulty variant that does not compare Z.)
DiffersIgnoresZ(b, fld) == b.y # fld.y \/ b.f # fld.f
Differs(b, fld) == b.y # fld.y \/ b.z # fld.z \/ b.f # fld.f

\* Lines 47-83: a line that starts with G1, its fields being fld.
\* (StepG1MergesAfterRapid: the faulty variant without lines 60-65, which
\* buffers a move that follows a rapid.)
StepG1MergesAfterRapid(st, stripped, fld) ==
    IF fld.err THEN [st EXCEPT !.err = TRUE]
    ELSE IF st.buf = None
         THEN [st EXCEPT !.buf = Some([x |-> fld.x, y |-> fld.y, z |-> fld.z, f |-> fld.f]),
                         !.last = Some("G1")]
    ELSE IF Differs(st.buf[1], fld)
         THEN EmitAfterFlush(flush_buffer(st), stripped, Some("G1"))
    ELSE [st EXCEPT !.buf = Some([x |-> fld.x, y |-> st.buf[1].y,
                                  z |-> st.buf[1].z, f |-> st.buf[1].f]),
                    !.last = Some("G1")]

StepG1(st, stripped, fld) ==
    IF fld.err THEN [st EXCEPT !.err = TRUE]
    ELSE IF st.last = Some("G0")
         THEN EmitAfterFlush(flush_buffer(st), stripped, Some("G1"))
    ELSE IF st.buf = None
         THEN [st EXCEPT !.buf = Some([x |-> fld.x, y |-> fld.y, z |-> fld.z, f |-> fld.f]),
                         !.last = Some("G1")]
    ELSE IF Differs(st.buf[1], fld)
         THEN EmitAfterFlush(flush_buffer(st), stripped, Some("G1"))
    ELSE [st EXCEPT !.buf = Some([x |-> fld.x, y |-> st.buf[1].y,
                                  z |-> st.buf[1].z, f |-> st.buf[1].f]),
                    !.last = Some("G1")]

\* Lines 45-95: one iteration of the for loop on `line`.
StepStripped(st, stripped) ==
    IF StartsWith(stripped.head, G1Head)
    THEN StepG1(st, stripped, ParseFields(stripped.toks))
    ELSE IF StartsWith(stripped.head, G0Head)
    THEN EmitAfterFlush(flush_buffer(st), stripped, Some("G0"))
    ELSE EmitAfterFlush(flush_buffer(st), stripped, None)

MergeStep(st, l) == IF st.err THEN st ELSE StepStripped(st, Strip(l))

\* "\n".join(lines) and text.split("\n"): a text is kept as the list of its
\* lines; the empty text is the text of one empty line.
EmptyLine == TextLine(<<>>, <<>>)
JoinLines(ls) == IF ls = <<>> THEN <<EmptyLine>> ELSE ls
SplitLines(text) == text

\* Lines 31-33.
MergeStart == [out |-> <<>>, buf |-> None, last |-> None, err |-> FALSE]

RECURSIVE MergeLoop(_, _)
MergeLoop(st, ls) ==
    IF ls = <<>> THEN st ELSE MergeLoop(MergeStep(st, Head(ls)), Tail(ls))

\* Lines 97-98: the final flush and the returned text, [err, text].
MergeReturn(t) == [err |-> t.err, text |-> IF t.err THEN <<>> ELSE JoinLines(t.out)]

optimize_gcode(gcode_lines) ==
    MergeReturn(flush_buffer(MergeLoop(MergeStart, gcode_lines)))

\* The lines the merger's input is drawn from.
M1 == TextLine(G1Head, <<Tok("X", 0, 0), Tok("Y", 0, 0), Tok("Z", 1, 0), Tok("F", 100, 0)>>)
M2 == TextLine(G1Head, <<Tok("X", 5, 0), Tok("Y", 0, 0), Tok("Z", 1, 0), Tok("F", 100, 0)>>)
M3 == TextLine(G1Head, <<Tok("X", 5, 0), Tok("Y", 0, 0), Tok("Z", 2, 0), Tok("F", 100, 0)>>)

MergeLines ==
    { M1, M2, M3,
      \* G1 X0 Y0 Z1 F100.4
      TextLine(G1Head, <<Tok("X", 0, 0), Tok("Y", 0, 0), Tok("Z", 1, 0), Tok("F", 1004, 1)>>),
      \* G1 X5 Y0 Z1.0004 F100
      TextLine(G1Head, <<Tok("X", 5, 0), Tok("Y", 0, 0), Tok("Z", 10004, 4), Tok("F", 100, 0)>>),
      \* G1 X7 Y0 Z1
      TextLine(G1Head, <<Tok("X", 7, 0), Tok("Y", 0, 0), Tok("Z", 1, 0)>>),
      \* G1 Y0 Z1 F100
      TextLine(G1Head, <<Tok("Y", 0, 0), Tok("Z", 1, 0), Tok("F", 100, 0)>>),
      \* G1 X5 Y0 Z1 ; Fast  (a trailing comment; float("ast") raises)
      TextLine(G1Head, <<Tok("X", 5, 0), Tok("Y", 0, 0), Tok("Z", 1, 0),
                         [letter |-> ";", num |-> None],
                         [letter |-> "F", num |-> None]>>),
      \* G17  (plane selection: no controlled move, but it starts with "G1")
      TextLine(<<"G", "1", "7">>, <<>>),
      \* G0 Z5
      TextLine(G0Head, <<Tok("Z", 5, 0)>>),
      \* M5
      TextLine(<<"M", "5">>, <<>>),
      \* "  M5 ": the same between blanks
      [head |-> <<"M", "5">>, toks |-> <<>>, pad |-> TRUE] }

MergeSnapshot(st) == [buf |-> st.buf, last |-> st.last, nout |-> Len(st.out)]

MergeState ==
    [out |-> optimized_lines, buf |-> buffer_line, last |-> last_cmd_type, err |-> FALSE]

\* One iteration of the for loop (lines 45-95) on line l.
MergeLine(l) ==
    /\ mpc = "loop"
    /\ Len(mlog) < MaxMergeLines
    /\ \E t \in {MergeStep(MergeState, l)} :
           /\ optimized_lines' = t.out
           /\ buffer_line' = t.buf
           /\ last_cmd_type' = t.last
           /\ mpc' = IF t.err THEN "error" ELSE "loop"
           /\ mlog' = Append(mlog, [line |-> l,
                                    fld    |-> IF StartsWith(Strip(l).head, G1Head)
                                               THEN ParseFields(Strip(l).toks)
                                               ELSE NoFields,
                                    before |-> MergeSnapshot(MergeState),
                                    after  |-> MergeSnapshot(t),
                                    err    |-> t.err])
    /\ UNCHANGED result
    /\ UNCHANGED <<parserVars, generatorVars>>

\* The end of the input: the final flush and the return (lines 97-98).
MergeFinish ==
    /\ mpc = "loop"
    /\ \E t \in {flush_buffer(MergeState)} :
           /\ optimized_lines' = t.out
           /\ buffer_line' = t.buf
           /\ mpc' = IF t.err THEN "error" ELSE "done"
           /\ result' = IF t.err THEN None ELSE Some(MergeReturn(t).text)
    /\ UNCHANGED <<last_cmd_type, mlog>>
    /\ UNCHANGED <<parserVars, generatorVars>>

\* No call of the interpreter is under way.
ParserIdle ==
    /\ pc = "idle"
    /\ lineNb = 0
    /\ line = None
    /\ relative = ZeroCoords
    /\ offset = ZeroOffset
    /\ isRelative = FALSE
    /\ segments = <<>>
    /\ layers = None
    /\ distance = None
    /\ extrudate = None
    /\ bbox = None
    /\ warnings = <<>>
    /\ raised = None
    /\ log = <<>>
    /\ calls = <<>>

InitMerge ==
    /\ ParserIdle
    /\ GeneratorIdle
    /\ mpc = "loop"
    /\ optimized_lines = <<>>
    /\ buffer_line = None
    /\ last_cmd_type = None
    /\ result = None
    /\ mlog = <<>>

NextMerge ==
    \/ \E l \in MergeLines : MergeLine(l)
    \/ MergeFinish

SpecMerge == InitMerge /\ [][NextMerge]_vars

-----------------------------------------------------------------------------
(* Properties of the Segment Merger *)

IsG1(l) == StartsWith(Strip(l).head, G1Head)
FieldsOf(i) == mlog[i].fld

\* Line i is a controlled move that carries X, Y and Z.
FullMove(i) ==
    /\ IsG1(mlog[i].line)
    /\ ~FieldsOf(i).err
    /\ FieldsOf(i).x # None /\ FieldsOf(i).y # None /\ FieldsOf(i).z # None

\* Lines i..j are a run of controlled moves with identical Y, Z and F that
\* starts with no pending move and not directly after a rapid.
IsRun(i, j) ==
    /\ i <= j
    /\ mlog[i].before.buf = None
    /\ mlog[i].before.last # Some("G0")
    /\ \A k \in i..j :
           /\ FullMove(k)
           /\ FieldsOf(k).y = FieldsOf(i).y
           /\ FieldsOf(k).z = FieldsOf(i).z
           /\ FieldsOf(k).f = FieldsOf(i).f

\* The output line o is one controlled move that ends at the X of line j and
\* has the Y, Z and F of the run (at the precision of the output).
IsMergedMove(o, j) ==
    /\ o.head = G1Head
    /\ ParseFields(o.toks).x = FieldsOf(j).x
    /\ ParseFields(o.toks).y = Some(10 * RoundDiv(FieldsOf(j).y[1], 10))
    /\ ParseFields(o.toks).z = Some(10 * RoundDiv(FieldsOf(j).z[1], 10))
    /\ FieldsOf(j).f = None => ParseFields(o.toks).f = None
    /\ FieldsOf(j).f # None =>
           ParseFields(o.toks).f = Some(10000 * RoundDiv(FieldsOf(j).f[1], 10000))

\* C9: a run of controlled moves (each with X, Y and Z) with identical Y, Z
\* and F, no move pending at its start and not directly after a rapid, emits
\* nothing while it lasts and is pending as one move ending at the last X; a
\* following controlled move whose Z (or Y or F) differs, or a line that is
\* no controlled move, makes it exactly one output line, followed by that
\* line as a line of its own; at the end of the input it is exactly one
\* output line.  For M1, M2, M3 the output is the merged move ending at X=5
\* and M3: two controlled-move lines.
C9_MergerCorrectness ==
    /\ \A i \in 1..Len(mlog) : \A j \in i..Len(mlog) :
           IsRun(i, j) =>
               LET n == mlog[i].before.nout
               IN  /\ ~mlog[j].err
                   /\ mlog[j].after.nout = n
                   /\ mlog[j].after.buf # None
                   /\ mlog[j].after.buf[1].x = FieldsOf(j).x
                   /\ ( /\ j < Len(mlog)
                        /\ ~FieldsOf(j+1).err
                        /\ \/ ~IsG1(mlog[j+1].line)
                           \/ FieldsOf(j+1).z # FieldsOf(j).z
                           \/ FieldsOf(j+1).y # FieldsOf(j).y
                           \/ FieldsOf(j+1).f # FieldsOf(j).f )
                      => /\ ~mlog[j+1].err
                         /\ mlog[j+1].after.nout = n + 2
                         /\ mlog[j+1].after.buf = None
                         /\ IsMergedMove(optimized_lines[n+1], j)
                         /\ optimized_lines[n+2] = Strip(mlog[j+1].line)
                   /\ (j = Len(mlog) /\ mpc = "done")
                      => /\ Len(optimized_lines) = n + 1
                         /\ IsMergedMove(optimized_lines[n+1], j)
                         /\ result = Some(optimized_lines)
    /\ ( /\ mpc = "done"
         /\ Len(mlog) = 3
         /\ mlog[1].line = M1 /\ mlog[2].line = M2 /\ mlog[3].line = M3 )
       => result = Some(<< TextLine(G1Head, <<Tok("X", 5000, 3), Tok("Y", 0, 3),
                                              Tok("Z", 1000, 3), Tok("F", 100, 0)>>),
                           M3 >>)

\* C9 witness: M1, M2, M3 were merged into two lines.
C9_Witness ==
    /\ mpc = "done"
    /\ Len(mlog) = 3
    /\ mlog[1].line = M1 /\ mlog[2].line = M2 /\ mlog[3].line = M3
    /\ IsRun(1, 2)
    /\ Len(result[1]) = 2

\* C10: merging the lines of the merged output again completes and yields
\* exactly the same lines, for every input on which the merge completes.
C10_Idempotent ==
    mpc = "done" =>
        /\ ~optimize_gcode(SplitLines(result[1])).err
        /\ optimize_gcode(SplitLines(result[1])).text = result[1]

\* C10, the cases in which it does hold: every number of the input is
\* written with at most three decimals, every feed value is whole.
AtOutputPrecision(l) ==
    \A k \in 1..Len(l.toks) :
        /\ l.toks[k].num # None
        /\ l.toks[k].letter = "F" => l.toks[k].num[1].d = 0
        /\ l.toks[k].letter # "F" => l.toks[k].num[1].d <= 3

C10_IdempotentAtOutputPrecision ==
    (mpc = "done" /\ \A i \in 1..Len(mlog) : AtOutputPrecision(mlog[i].line)) =>
        /\ ~optimize_gcode(SplitLines(result[1])).err
        /\ optimize_gcode(SplitLines(result[1])).text = result[1]

\* Line i is a controlled-move line: its command word is G1.
IsControlledMove(i) == Strip(mlog[i].line).head = G1Head

\* A word of line l starts with X, Y, Z or F and is not a number after it.
HasMalformedToken(l) ==
    \E k \in 1..Len(l.toks) :
        l.toks[k].letter \in {"X", "Y", "Z", "F"} /\ l.toks[k].num = None

\* C11: a controlled-move line (its X/Y/Z/F words being numbers, any of them
\* possibly absent) read when the last output action was a rapid move is
\* appended to the output as a line of its own, as it was read, and is not
\* buffered: no move is pending after it, and whatever lines follow, that
\* output line stays as it was read and the next controlled move starts a
\* group of its own.
C11_MoveAfterRapidNotBuffered ==
    \A i \in 1..Len(mlog) :
        ( /\ IsControlledMove(i)
          /\ ~FieldsOf(i).err
          /\ mlog[i].before.last = Some("G0") )
        => /\ ~mlog[i].err
           /\ mlog[i].before.buf = None
           /\ mlog[i].after.nout = mlog[i].before.nout + 1
           /\ mlog[i].after.buf = None
           /\ mlog[i].after.last = Some("G1")
           /\ optimized_lines[mlog[i].after.nout] = Strip(mlog[i].line)
           /\ (i < Len(mlog) /\ IsControlledMove(i+1) /\ ~FieldsOf(i+1).err)
              => /\ mlog[i+1].after.nout = mlog[i].after.nout
                 /\ mlog[i+1].after.buf =
                        Some([x |-> FieldsOf(i+1).x, y |-> FieldsOf(i+1).y,
                              z |-> FieldsOf(i+1).z, f |-> FieldsOf(i+1).f])

\* C11 witness: G0 Z5, M1, M2 were merged to the end: M1 left as it was
\* read although M2 has its Y, Z and F, and M2 left as a move of its own.
C11_Witness ==
    /\ mpc = "done"
    /\ \E i \in 1..(Len(mlog) - 2) :
           /\ StartsWith(mlog[i].line.head, G0Head)
           /\ mlog[i+1].line = M1
           /\ mlog[i+2].line = M2
           /\ i + 2 = Len(mlog)
           /\ optimized_lines[mlog[i+1].after.nout] = M1
           /\ Len(optimized_lines) = mlog[i+1].after.nout + 1
           /\ IsMergedMove(optimized_lines[Len(optimized_lines)], i+2)

\* C12: every line that is no controlled move (a rapid move, a comment, a
\* preamble or postamble command, an unrecognized line such as G17) is
\* appended to the output as it was read (surrounding blanks aside) when it
\* is read, after the move that was pending, if any, and merging goes on.
C12_OtherLinesVerbatim ==
    \A i \in 1..Len(mlog) :
        ~IsControlledMove(i) =>
            /\ ~mlog[i].err
            /\ mlog[i].after.buf = None
            /\ mlog[i].after.nout =
                   mlog[i].before.nout + (IF mlog[i].before.buf = None THEN 1 ELSE 2)
            /\ optimized_lines[mlog[i].after.nout] = Strip(mlog[i].line)

\* Every line read that starts with G1 is a controlled move whose X, Y, Z
\* and F words are numbers.
OnlyWellFormedMoves ==
    \A i \in 1..Len(mlog) :
        IsG1(mlog[i].line) => IsControlledMove(i) /\ ~HasMalformedToken(mlog[i].line)

\* C13: when every controlled-move line carries numbers in the X, Y, Z and F
\* words it has (any of the four may be absent), the merge raises nothing:
\* neither in the loop nor in the final flush.
C13_NoFailureOnAbsentFields ==
    OnlyWellFormedMoves => mpc # "error"

\* C14: a controlled-move line with a word that starts with X, Y, Z or F and
\* is no number after it raises nothing: the line is handled by the fields
\* its other words give, and the loop goes on.
C14_MalformedTokenIgnored ==
    \A i \in 1..Len(mlog) :
        ( /\ IsControlledMove(i)
          /\ HasMalformedToken(mlog[i].line)
          /\ mlog[i].before.buf = None )
        => /\ ~mlog[i].err
           /\ mlog[i].after.nout = mlog[i].before.nout
                  + (IF mlog[i].before.last = Some("G0") THEN 1 ELSE 0)


\* A number of the merger (ten-thousandths) at the three decimals of the
\* output.
Round3(v) == 10 * RoundDiv(v, 10)

\* Line o is a line of motion: its command word is G0 or G1.
IsMotion(o) == o.head = G1Head \/ o.head = G0Head

\* The Y and Z of the tool after the first n lines of the text out, as the
\* motion lines give them (None: not given yet).
RECURSIVE ToolAt(_, _)
ToolAt(out, n) ==
    IF n = 0 THEN [y |-> None, z |-> None]
    ELSE LET t == ToolAt(out, n - 1)
             f == ParseFields(out[n].toks)
         IN  IF ~IsMotion(out[n]) THEN t
             ELSE [y |-> IF f.y # None THEN f.y ELSE t.y,
                   z |-> IF f.z # None THEN f.z ELSE t.z]

\* Output line o stands for the input moves i..j, two or more.
StandsFor(o, i, j) ==
    /\ i < j
    /\ IsRun(i, j)
    /\ mlog[i].before.nout = o - 1
    /\ o <= Len(optimized_lines)

\* C26: a controlled-move line of the output that stands for two or more
\* input moves starts where the tool has the Y and the Z of that line (as far
\* as the lines of motion before it give a Y and a Z), so it is a move in X
\* alone.
C26_MergedMoveIsPureX ==
    \A o \in 1..Len(optimized_lines) :
        \A i \in 1..Len(mlog) : \A j \in i..Len(mlog) :
            StandsFor(o, i, j) =>
                LET t == ToolAt(optimized_lines, o - 1)
                IN  /\ t.y # None => Round3(t.y[1]) = Round3(FieldsOf(i).y[1])
                    /\ t.z # None => Round3(t.z[1]) = Round3(FieldsOf(i).z[1])

\* The last line among the first k lines read that starts with G1 (0: none).
RECURSIVE LastRead(_)
LastRead(k) ==
    IF k = 0 THEN 0 ELSE IF IsG1(mlog[k].line) THEN k ELSE LastRead(k - 1)

\* The last controlled move among the first n lines of the output (0: none).
RECURSIVE LastEmitted(_)
LastEmitted(n) ==
    IF n = 0 THEN 0
    ELSE IF optimized_lines[n].head = G1Head THEN n ELSE LastEmitted(n - 1)

RECURSIVE CountRead(_)
CountRead(k) ==
    IF k = 0 THEN 0 ELSE CountRead(k - 1) + (IF IsG1(mlog[k].line) THEN 1 ELSE 0)

RECURSIVE CountEmitted(_)
CountEmitted(n) ==
    IF n = 0 THEN 0
    ELSE CountEmitted(n - 1) + (IF optimized_lines[n].head = G1Head THEN 1 ELSE 0)

\* Every line that starts with G1 is a controlled move with numbers for X,
\* Y and Z.
OnlyFullMoves ==
    \A i \in 1..Len(mlog) : IsG1(mlog[i].line) => IsControlledMove(i) /\ FullMove(i)

\* After the k lines read and the n lines emitted, the last controlled move
\* emitted has the X, Y and Z of the last one read, each passed through
\* rnd; there is one emitted when there is one read.
EndpointKept(k, n, rnd(_)) ==
    LastRead(k) # 0 =>
        /\ LastEmitted(n) # 0
        /\ LET f == FieldsOf(LastRead(k))
               g == ParseFields(optimized_lines[LastEmitted(n)].toks)
           IN  /\ g.x # None /\ rnd(g.x[1]) = rnd(f.x[1])
               /\ g.y # None /\ rnd(g.y[1]) = rnd(f.y[1])
               /\ g.z # None /\ rnd(g.z[1]) = rnd(f.z[1])

\* The endpoint is kept, up to rnd, at every rapid or other line and at the
\* end of the input, and the output never has more controlled moves than
\* the input.
EndpointNeverLost(rnd(_)) ==
    OnlyFullMoves =>
        /\ mpc # "error"
        /\ \A k \in 1..Len(mlog) :
               ~IsG1(mlog[k].line) => EndpointKept(k, mlog[k].after.nout, rnd)
        /\ mpc = "done" =>
               /\ buffer_line = None
               /\ EndpointKept(Len(mlog), Len(optimized_lines), rnd)
        /\ CountEmitted(Len(optimized_lines)) <= CountRead(Len(mlog))

Exactly(v) == v

-----------------------------------------------------------------------------
(* GCodeGenerator.convert_image_to_gcode (gcode/generator.py) *)

(***************************************************************************)
(* Numbers.  A length is a number of thousandths of a millimetre: the      *)
(* parameters are whole numbers of them, and what the divisions by 255, by *)
(* rows - 1, by cols - 1 and by subdivisions + 1 give is kept exactly, as  *)
(* a fraction [n, d] in lowest terms with d > 0 (the rounding of Python's  *)
(* binary floats is not modelled).  The format .3f rounds a fraction to a  *)
(* whole number of thousandths.                                            *)
(***************************************************************************)
RECURSIVE GCD(_, _)
GCD(a, b) == IF b = 0 THEN a ELSE GCD(b, a % b)

Q(n, d) == LET g == GCD(Abs(n), d) IN [n |-> n \div g, d |-> d \div g]
QInt(i) == [n |-> i, d |-> 1]
QAdd(a, b) == Q(a.n * b.d + b.n * a.d, a.d * b.d)
QSub(a, b) == Q(a.n * b.d - b.n * a.d, a.d * b.d)
QMul(a, b) == Q(a.n * b.n, a.d * b.d)
QLe(a, b) == a.n * b.d <= b.n * a.d
QLt(a, b) == a.n * b.d < b.n * a.d
QMin(a, b) == IF QLe(a, b) THEN a ELSE b

\* f"{v:.3f}" of the fraction v: the numeral with three decimals.
Format3(v) == [m |-> RoundDiv(v.n, v.d), d |-> 3]

\* np.ceil(a / b) for b > 0
Ceil(a, b) == -((-a) \div b)

\* the rows and the columns of the sample grids the generator is called with
MaxRows == 2
MaxCols == 2
\* the subdivision counts
MaxSub == 1

\* Grey values: 64 (three quarters of the depth) and 255 (white: depth 0).
Intensities == {64, 255}

\* The 2-D arrays: [rows, cols, px], px[r][c] the value of row r - 1, column
\* c - 1; an array may have no row or no column.
Images ==
    UNION { { [rows |-> r, cols |-> c, px |-> p] :
                 p \in [1..r -> [1..c -> Intensities]] } :
            r \in 0..MaxRows, c \in 0..MaxCols }

\* max_depth_mm and step_down_mm: step_down above max_depth, half of it, not
\* a divisor of it, zero, below zero; and max_depth 0.  (The attributes are
\* set from a dictionary without any check of their values.)
Depths ==
    { [max_depth_mm |-> 2000, step_down_mm |-> 3000],
      [max_depth_mm |-> 2000, step_down_mm |-> 1000],
      [max_depth_mm |-> 2000, step_down_mm |-> 1500],
      [max_depth_mm |-> 2000, step_down_mm |-> 0],
      [max_depth_mm |-> 2000, step_down_mm |-> -1000],
      [max_depth_mm |-> 0,    step_down_mm |-> 1000] }

\* margin: a tenth of the width with every pair of depths, and none with
\* the pair that gives two passes.
Margins(dp) ==
    IF dp = [max_depth_mm |-> 2000, step_down_mm |-> 1000] THEN {0, 1000} ELSE {1000}

\* Lines 37-46: the attributes of a generator.
GenParams ==
    UNION { { [max_depth_mm  |-> dp.max_depth_mm,
               safe_z_mm     |-> 2000,
               feed_rate_xy  |-> 300,
               feed_rate_z   |-> 100,
               spindle_speed |-> 20000,
               step_down_mm  |-> dp.step_down_mm,
               margin        |-> mg,
               width_mm      |-> 10000,
               height_mm     |-> 10000,
               subdivisions  |-> k] : mg \in Margins(dp), k \in 0..MaxSub } :
            dp \in Depths }

\* Line 53
rows == image_array[1].rows
cols == image_array[1].cols

\* Line 54.
\* (TotalPassesFloor: the faulty variant that rounds down and adds one.)
TotalPassesFloor(p) ==
    IF p.step_down_mm > 0 THEN (p.max_depth_mm \div p.step_down_mm) + 1 ELSE 1
\* (TotalPassesAtLeastOne: the faulty variant that always makes a pass.)
TotalPassesAtLeastOne(p) ==
    IF p.step_down_mm > 0 THEN Max(1, Ceil(p.max_depth_mm, p.step_down_mm)) ELSE 1
TotalPasses(p) ==
    IF p.step_down_mm > 0 THEN Ceil(p.max_depth_mm, p.step_down_mm) ELSE 1

\* f"Z{v}" of a float v that is a whole number of tenths: str(2.0) is "2.0".
Str(v) == Tok("Z", v \div 100, 1)

\* A word that is no number after its first character (of a comment, say).
Word(c) == [letter |-> c, num |-> None]

\* Lines 56-64.  Of the words of a comment only the first character is kept.
\* (PreambleDwellFirst: the faulty variant that dwells before the spindle
\* is switched on.)
PreambleDwellFirst(p) ==
    << TextLine(<<"G", "9", "0">>, <<Word(";"), Word("U"), Word("a"), Word("c")>>),
       TextLine(<<"G", "2", "1">>, <<Word(";"), Word("U"), Word("i"), Word("m")>>),
       TextLine(<<"G", "5", "4">>, <<Word(";"), Word("W"), Word("c"), Word("s")>>),
       TextLine(<<"G", "4">>, <<Tok("P", 5, 0), Word(";"), Word("D"), Word("f"),
                               Word("5"), Word("s")>>),
       TextLine(<<"M", "3">>, <<Tok("S", p.spindle_speed, 0), Word(";"), Word("S"), Word("O")>>),
       TextLine(G0Head, <<Str(p.safe_z_mm), Tok("F", p.feed_rate_z, 0)>>),
       TextLine(<<";">>, <<Word("B"), Word("r"), Word("s")>>) >>

Preamble(p) ==
    << TextLine(<<"G", "9", "0">>, <<Word(";"), Word("U"), Word("a"), Word("c")>>),
       TextLine(<<"G", "2", "1">>, <<Word(";"), Word("U"), Word("i"), Word("m")>>),
       TextLine(<<"G", "5", "4">>, <<Word(";"), Word("W"), Word("c"), Word("s")>>),
       TextLine(<<"M", "3">>, <<Tok("S", p.spindle_speed, 0), Word(";"), Word("S"), Word("O")>>),
       TextLine(<<"G", "4">>, <<Tok("P", 5, 0), Word(";"), Word("D"), Word("f"),
                               Word("5"), Word("s")>>),
       TextLine(G0Head, <<Str(p.safe_z_mm), Tok("F", p.feed_rate_z, 0)>>),
       TextLine(<<";">>, <<Word("B"), Word("r"), Word("s")>>) >>

\* Line 67
\* (PassDepthUncapped: the faulty variant without the cap at max_depth.)
PassDepthUncapped(p, i) == i * p.step_down_mm
PassDepth(p, i) == Min(i * p.step_down_mm, p.max_depth_mm)

\* Line 68: "; --- Pass i/n, Depth = d mm ---"
PassHeader(i) ==
    TextLine(<<";">>, <<Word("-"), Word("P"), Word("#"), Word("D"), Word("="),
                        Word("#"), Word("m"), Word("-")>>)

\* Line 71 and line 76, for rows > 1 and cols > 1.
y_mm(p, nrows, r) ==
    QAdd(QInt(p.margin),
         QMul(Q(nrows - 1 - r, nrows - 1), QInt(p.height_mm - 2 * p.margin)))
\* (x_mmNoMargin: the faulty variant that does not add the margin to x.)
x_mmNoMargin(p, ncols, c) ==
    QMul(Q(c, ncols - 1), QInt(p.width_mm - 2 * p.margin))
x_mm(p, ncols, c) ==
    QAdd(QInt(p.margin),
         QMul(Q(c, ncols - 1), QInt(p.width_mm - 2 * p.margin)))

\* Line 78
pixel_depth(p, pixel_val) == QMul(Q(255 - pixel_val, 255), QInt(p.max_depth_mm))

\* Line 79: the depth of a row point.
\* (PointDepthUnclamped: the faulty variant that ignores pass_depth.)
PointDepthUnclamped(p, pixel_val, pd) == pixel_depth(p, pixel_val)
PointDepth(p, pixel_val, pd) == QMin(pixel_depth(p, pixel_val), QInt(pd))

\* Lines 73-79: row_points of row r.
row_points(p, img, pd, r) ==
    [c \in 1..img.cols |->
        [x |-> x_mm(p, img.cols, c - 1),
         z |-> PointDepth(p, img.px[r + 1][c], pd)]]

\* Line 84: the values of `sub`.
\* (SubRangeShort: the faulty variant range(subdivisions).)
SubRangeShort(p) == p.subdivisions
SubRange(p) == p.subdivisions + 1

\* Lines 84-88: the moves from row point i towards row point i + 1, from
\* `sub` on; a move is [i, sub, x, z].
RECURSIVE SubLoop(_, _, _, _)
SubLoop(p, pts, i, sub) ==
    IF sub >= SubRange(p) THEN <<>>
    ELSE LET t == Q(sub, p.subdivisions + 1)
         IN  << [i   |-> i,
                 sub |-> sub,
                 x   |-> QAdd(pts[i].x, QMul(t, QSub(pts[i + 1].x, pts[i].x))),
                 z   |-> QAdd(pts[i].z, QMul(t, QSub(pts[i + 1].z, pts[i].z)))] >>
             \o SubLoop(p, pts, i, sub + 1)

\* Lines 81-88: the loop over the pairs of successive row points.
RECURSIVE PairLoop(_, _, _)
PairLoop(p, pts, i) ==
    IF i > Len(pts) - 1 THEN <<>>
    ELSE SubLoop(p, pts, i, 0) \o PairLoop(p, pts, i + 1)

\* Lines 90-91: the move to the last row point.
\* (NoFinalMove: the faulty variant without it.)
NoFinalMove(pts) == <<>>
FinalMove(pts) ==
    << [i |-> Len(pts), sub |-> 0, x |-> pts[Len(pts)].x, z |-> pts[Len(pts)].z] >>

\* Lines 81-91: the controlled moves of a row.
RowMoves(p, pts) == PairLoop(p, pts, 1) \o FinalMove(pts)

\* Line 72
RowStart(p, ym) ==
    TextLine(G0Head, << [letter |-> "X", num |-> Some(Format3(QInt(p.margin)))],
                        [letter |-> "Y", num |-> Some(Format3(ym))],
                        Tok("F", p.feed_rate_xy, 0) >>)

\* f"Z-{z:.3f}" of lines 88 and 91: the depth is written after a minus sign,
\* "Z-1.498"; a depth below zero gives "Z--1.000", which is no number after
\* the letter.
DepthWord(z) ==
    IF z.n >= 0 THEN [letter |-> "Z", num |-> Some([m |-> -Format3(z).m, d |-> 3])]
    ELSE Word("Z")

\* Lines 88 and 91: "G1 X.. Y.. Z-.. F..".
\* (MoveLineWithFlow: the faulty variant that adds a flow word.)
MoveLineWithFlow(p, ym, mv) ==
    TextLine(G1Head, << [letter |-> "X", num |-> Some(Format3(mv.x))],
                        [letter |-> "Y", num |-> Some(Format3(ym))],
                        DepthWord(mv.z),
                        Tok("F", p.feed_rate_xy, 0),
                        Tok("E", 1, 0) >>)
MoveLine(p, ym, mv) ==
    TextLine(G1Head, << [letter |-> "X", num |-> Some(Format3(mv.x))],
                        [letter |-> "Y", num |-> Some(Format3(ym))],
                        DepthWord(mv.z),
                        Tok("F", p.feed_rate_xy, 0) >>)

\* Line 92
\* (RetractMissing: the faulty variant that writes a comment in its place.)
RetractMissing(p) == TextLine(<<";">>, <<Word("r")>>)
Retract(p) ==
    TextLine(G0Head, <<Str(p.safe_z_mm), Tok("F", p.feed_rate_z, 0)>>)

\* Lines 93-94
Postamble(p) ==
    << TextLine(<<"M", "5">>, <<Word(";"), Word("S"), Word("O")>>),
       TextLine(G0Head, <<Tok("X", 0, 0), Tok("Y", 0, 0), Str(p.safe_z_mm)>>) >>

\* Lines 53-64: the shape, total_passes and the first lines.
GenBegin ==
    /\ gpc = "start"
    /\ total_passes' = Some(TotalPasses(params[1]))
    /\ lines' = Preamble(params[1])
    /\ gpc' = "passes"
    /\ UNCHANGED <<params, image_array, pass_i, pass_depth, y, glog, gresult>>
    /\ UNCHANGED <<parserVars, mergerVars>>

\* Lines 66-68: the next pass.
GenPass ==
    /\ gpc = "passes"
    /\ pass_i < total_passes[1]
    /\ pass_i' = pass_i + 1
    /\ pass_depth' = Some(PassDepth(params[1], pass_i + 1))
    /\ lines' = Append(lines, PassHeader(pass_i + 1))
    /\ y' = 0
    /\ gpc' = IF rows = 0 THEN "passes" ELSE "rows"
    /\ UNCHANGED <<params, image_array, total_passes, glog, gresult>>
    /\ UNCHANGED <<parserVars, mergerVars>>

\* Lines 69-92: one row.  Line 71 divides by rows - 1 and line 76 by
\* cols - 1 (ZeroDivisionError); line 90 reads row_points[-1] (IndexError
\* when the row has no point).
GenRow ==
    /\ gpc = "rows"
    /\ y < rows
    /\ IF rows - 1 = 0
       THEN /\ gpc' = "ZeroDivisionError"
            /\ UNCHANGED <<lines, glog, y>>
       ELSE LET p   == params[1]
                ym  == y_mm(p, rows, y)
            IN  IF cols = 1
                THEN /\ gpc' = "ZeroDivisionError"
                     /\ lines' = Append(lines, RowStart(p, ym))
                     /\ UNCHANGED <<glog, y>>
                ELSE IF cols = 0
                THEN /\ gpc' = "IndexError"
                     /\ lines' = Append(lines, RowStart(p, ym))
                     /\ UNCHANGED <<glog, y>>
                ELSE \E pts \in {row_points(p, image_array[1], pass_depth[1], y)} :
                     \E mvs \in {RowMoves(p, pts)} :
                         /\ lines' = lines \o <<RowStart(p, ym)>>
                                       \o [j \in 1..Len(mvs) |-> MoveLine(p, ym, mvs[j])]
                                       \o <<Retract(p)>>
                         /\ glog' = Append(glog, [pass  |-> pass_i,
                                                  depth |-> pass_depth[1],
                                                  y     |-> y,
                                                  y_mm  |-> ym,
                                                  pts   |-> pts,
                                                  moves |-> mvs,
                                                  first |-> Len(lines) + 1])
                         /\ y' = y + 1
                         /\ gpc' = IF y + 1 = rows THEN "passes" ELSE "rows"
    /\ UNCHANGED <<params, image_array, total_passes, pass_i, pass_depth, gresult>>
    /\ UNCHANGED <<parserVars, mergerVars>>

\* Lines 93-95: the last lines and the return.
GenEnd ==
    /\ gpc = "passes"
    /\ pass_i >= total_passes[1]
    /\ lines' = lines \o Postamble(params[1])
    /\ gresult' = Some(lines')
    /\ gpc' = "done"
    /\ UNCHANGED <<params, image_array, total_passes, pass_i, pass_depth, y, glog>>
    /\ UNCHANGED <<parserVars, mergerVars>>

\* A call convert_image_to_gcode(image_array) of a generator with params.
InitGen ==
    /\ ParserIdle
    /\ mpc = "idle"
    /\ optimized_lines = <<>>
    /\ buffer_line = None
    /\ last_cmd_type = None
    /\ result = None
    /\ mlog = <<>>
    /\ gpc = "start"
    /\ params \in {Some(p) : p \in GenParams}
    /\ image_array \in {Some(img) : img \in Images}
    /\ total_passes = None
    /\ pass_i = 0
    /\ pass_depth = None
    /\ y = 0
    /\ lines = <<>>
    /\ glog = <<>>
    /\ gresult = None

NextGen ==
    \/ GenBegin
    \/ GenPass
    \/ GenRow
    \/ GenEnd

SpecGen == InitGen /\ [][NextGen]_vars

-----------------------------------------------------------------------------
(* The pipeline of MainWindow.generate_gcode: the text of the generator is
   given to GcodeParser.parseString *)

\* The command word of a line as the string parseLine looks up.
CodeOf(head) ==
    CASE head = <<"G", "0">>      -> "G0"
      [] head = <<"G", "1">>      -> "G1"
      [] head = <<"G", "4">>      -> "G4"
      [] head = <<"G", "2", "0">> -> "G20"
      [] head = <<"G", "2", "1">> -> "G21"
      [] head = <<"G", "2", "8">> -> "G28"
      [] head = <<"G", "5", "4">> -> "G54"
      [] head = <<"G", "9", "0">> -> "G90"
      [] head = <<"G", "9", "1">> -> "G91"
      [] head = <<"G", "9", "2">> -> "G92"
      [] head = <<"G", "1", "7">> -> "G17"
      [] head = <<"M", "3">>      -> "M3"
      [] head = <<"M", "5">>      -> "M5"

\* parseArgs on the words of a line up to the comment: float() of a numeral
\* with d decimals, in thousandths.
RECURSIVE BitsOf(_)
BitsOf(toks) ==
    IF toks = <<>> \/ Head(toks).letter = ";" THEN <<>>
    ELSE << [letter |-> Head(toks).letter,
             num    |-> IF Head(toks).num = None THEN None
                        ELSE Some(Head(toks).num[1].m * Pow10(3 - Head(toks).num[1].d))] >>
         \o BitsOf(Tail(toks))

\* parseLine, lines 256-269: the text before ';', split into the command
\* word and the argument bits; None when nothing is left.
CommandOf(ln) ==
    IF ln.head = <<>> \/ ln.head[1] = ";" THEN None
    ELSE Some(Cmd(CodeOf(ln.head), BitsOf(ln.toks)))

\* GcodeModel.__init__ with the line counter of the parser: the state a
\* call of parseString starts in.
ModelStart ==
    [relative |-> ZeroCoords, offset |-> ZeroOffset, isRelative |-> FALSE,
     segments |-> <<>>, warnings |-> <<>>, raised |-> None, lineNb |-> 0, line |-> None]

\* do_G1 (lines 36-58) for the command c of line n
do_G1(st, c, n) ==
    LET args   == parseArgs(c.bits)
        coords == G1Coords(st.relative, st.isRelative, args)
    IN  [st EXCEPT !.segments = Append(@, Segment(c.code, Absolute(st.offset, coords), n, c)),
                   !.relative = coords,
                   !.warnings = @ \o UnknownAxisWarnings(args, Axes, n)]

\* do_G92 (lines 63-72) for the command c of line n
do_G92(st, c, n) ==
    LET args == G92Args(parseArgs(c.bits))
        t    == G92Loop([offset |-> st.offset, relative |-> st.relative], args)
    IN  [st EXCEPT !.offset = t.offset,
                   !.relative = t.relative,
                   !.warnings = @ \o UnknownAxisWarnings(args, OffsetAxes, n)]

\* parseLine, lines 271-276: the handler of the command, or the warning.
\* (DispatchNoRapid: the faulty variant without parse_G0.)
DispatchNoRapid(st, c, n) ==
    IF c.code = "G1" THEN do_G1(st, c, n)
    ELSE IF c.code = "G20"
         THEN [st EXCEPT !.raised =
                  Some([lineNb |-> n, line |-> c,
                        msg |-> "Unsupported & incompatible: G20 (Inches)"])]
    ELSE IF c.code = "G21" THEN st
    ELSE IF c.code = "G28"
         THEN [st EXCEPT !.warnings = Append(@, Warning(n, "G28 unimplemented", ""))]
    ELSE IF c.code = "G90" THEN [st EXCEPT !.isRelative = FALSE]
    ELSE IF c.code = "G91" THEN [st EXCEPT !.isRelative = TRUE]
    ELSE IF c.code = "G92" THEN do_G92(st, c, n)
    ELSE [st EXCEPT !.warnings = Append(@, Warning(n, "Unknown code", c.code))]

Dispatch(st, c, n) ==
    IF c.code \in {"G0", "G1"} THEN do_G1(st, c, n)
    ELSE IF c.code = "G20"
         THEN [st EXCEPT !.raised =
                  Some([lineNb |-> n, line |-> c,
                        msg |-> "Unsupported & incompatible: G20 (Inches)"])]
    ELSE IF c.code = "G21" THEN st
    ELSE IF c.code = "G28"
         THEN [st EXCEPT !.warnings = Append(@, Warning(n, "G28 unimplemented", ""))]
    ELSE IF c.code = "G90" THEN [st EXCEPT !.isRelative = FALSE]
    ELSE IF c.code = "G91" THEN [st EXCEPT !.isRelative = TRUE]
    ELSE IF c.code = "G92" THEN do_G92(st, c, n)
    ELSE [st EXCEPT !.warnings = Append(@, Warning(n, "Unknown code", c.code))]

\* One iteration of the line loop (lines 247-250) on the command c, None
\* for a line without a command word.
parseLine(st, c) ==
    LET n  == st.lineNb + 1
        s1 == [st EXCEPT !.lineNb = n, !.line = c]
    IN  IF c = None THEN s1 ELSE Dispatch(s1, c[1], n)

\* The line loop from the i-th command on; an exception ends it.
RECURSIVE ParseLoop(_, _, _)
ParseLoop(st, cmds, i) ==
    IF i > Len(cmds) \/ st.raised # None THEN st
    ELSE ParseLoop(parseLine(st, cmds[i]), cmds, i + 1)

\* What a call leaves behind, from the model state st0 on the commands
\* cmds: the state after the loop and, unless it raised, the results of
\* postProcess.
ParseFrom(st0, cmds) ==
    LET st == ParseLoop(st0, cmds, 1)
    IN  IF st.raised # None
        THEN [pc |-> "aborted", st |-> st, post |-> None]
        ELSE [pc |-> "done", st |-> st, post |-> Some(postProcess(st.segments))]

\* parseString, lines 240-252, on a text of lines
parseString(text) ==
    ParseFrom(ModelStart, [i \in 1..Len(text) |-> CommandOf(text[i])])

\* generate_gcode, lines 365-367: a new GcodeParser parses the text.
InterpretText(text) ==
    /\ pc = "idle"
    /\ \E m \in {parseString(text)} :
           /\ pc' = m.pc
           /\ lineNb' = m.st.lineNb
           /\ line' = m.st.line
           /\ relative' = m.st.relative
           /\ offset' = m.st.offset
           /\ isRelative' = m.st.isRelative
           /\ warnings' = m.st.warnings
           /\ raised' = m.st.raised
           /\ IF m.post = None
              THEN /\ segments' = m.st.segments
                   /\ UNCHANGED postVars
              ELSE /\ segments' = m.post[1].segs
                   /\ layers' = Some(m.post[1].layers)
                   /\ distance' = Some(m.post[1].distance)
                   /\ extrudate' = Some(m.post[1].extrudate)
                   /\ bbox' = m.post[1].bbox
    /\ calls' = Append(calls, Call("parseString"))
    /\ UNCHANGED log

\* generate_gcode with optimize unchecked: the text the generator returned
\* is parsed.
ParseGenerated ==
    /\ gpc = "done"
    /\ mpc = "idle"
    /\ InterpretText(gresult[1])
    /\ UNCHANGED <<mergerVars, generatorVars>>

\* generate_gcode, lines 358-360 (optimize checked): the lines of the text
\* the generator returned are given to optimize_gcode; an exception of the
\* merger leaves generate_gcode.
OptimizeGenerated ==
    /\ gpc = "done"
    /\ mpc = "idle"
    /\ pc = "idle"
    /\ \E t \in {flush_buffer(MergeLoop(MergeStart, SplitLines(gresult[1])))} :
           /\ optimized_lines' = t.out
           /\ buffer_line' = t.buf
           /\ last_cmd_type' = t.last
           /\ mpc' = IF t.err THEN "error" ELSE "done"
           /\ result' = IF t.err THEN None ELSE Some(MergeReturn(t).text)
    /\ UNCHANGED mlog
    /\ UNCHANGED <<parserVars, generatorVars>>

\* generate_gcode with optimize checked: the text the merger returned is
\* parsed.
ParseOptimized ==
    /\ gpc = "done"
    /\ mpc = "done"
    /\ InterpretText(result[1])
    /\ UNCHANGED <<mergerVars, generatorVars>>

NextRound ==
    \/ NextGen
    \/ ParseGenerated

SpecRound == InitGen /\ [][NextRound]_vars

\* The generator, then the interpreter on its text, directly or after the
\* merger.
NextPipeline ==
    \/ NextGen
    \/ ParseGenerated
    \/ OptimizeGenerated
    \/ ParseOptimized

SpecPipeline == InitGen /\ [][NextPipeline]_vars

-----------------------------------------------------------------------------
(* parseLine on text with comments *)

(***************************************************************************)
(* The text of a line as a sequence of items separated by blanks: a word   *)
(* [k = "w", text, letter, num] (its text when it is the command token,    *)
(* its first character and the number after it when it is an argument) or  *)
(* one of the characters "(", ")" and ";" ([k = the character]).           *)
(***************************************************************************)
TextWord(text, letter, num) == [k |-> "w", text |-> text, letter |-> letter, num |-> num]
Mark(c) == [k |-> c]

\* str.find: the index of the first item c from i on, 0 when there is none.
RECURSIVE IndexOf(_, _, _)
IndexOf(items, c, i) ==
    IF i > Len(items) THEN 0
    ELSE IF items[i].k = c THEN i
    ELSE IndexOf(items, c, i + 1)

\* Line 256: re.sub(r"\([^)]*\)", "", line) removes, from left to right,
\* every "(" that has a ")" after it, up to the first such ")".
\* (RemoveParensNone: the faulty variant that removes nothing.)
RemoveParensNone(items) == items
RECURSIVE RemoveParens(_)
RemoveParens(items) ==
    LET o == IndexOf(items, "(", 1)
        c == IF o = 0 THEN 0 ELSE IndexOf(items, ")", o + 1)
    IN  IF c = 0 THEN items
        ELSE SubSeq(items, 1, o - 1) \o RemoveParens(SubSeq(items, c + 1, Len(items)))

\* command[0:idx] of lines 260 and 265
CutAt(items, c) ==
    IF IndexOf(items, c, 1) = 0 THEN items
    ELSE SubSeq(items, 1, IndexOf(items, c, 1) - 1)

\* Lines 256-265: what is left of a line, and whether line 264 warns.
StripComments(items) ==
    LET a == RemoveParens(items)
        b == CutAt(a, ";")
    IN  [words |-> CutAt(b, "("), warn |-> IndexOf(b, "(", 1) # 0]

\* Lines 267-269 and 280-288: the command token and the bits of the rest.
ItemText(it) == IF it.k = "w" THEN it.text ELSE it.k
ItemBit(it) ==
    IF it.k = "w" THEN [letter |-> it.letter, num |-> it.num]
    ELSE [letter |-> it.k, num |-> None]
CommandFrom(words) ==
    IF words = <<>> THEN None
    ELSE Some(Cmd(ItemText(words[1]),
                  [j \in 1..(Len(words) - 1) |-> ItemBit(words[j + 1])]))

\* The lines of the texts with comments: an empty line, lines that are only
\* a comment of each kind, a move without comment, and moves, a mode
\* command, an unknown command and the fatal command with comments that
\* hold words which would be arguments or commands.
WordG1 == TextWord("G1", "G", Some(1))
WordX5 == TextWord("X5", "X", Some(5))
WordY3 == TextWord("Y3", "Y", Some(3))
WordZ2 == TextWord("Z2", "Z", Some(2))
CommentedLines ==
    { <<>>,
      << Mark(";"), WordG1, WordX5 >>,
      << Mark("("), WordG1, WordX5, Mark(")") >>,
      << Mark("("), WordY3 >>,
      << WordG1, WordX5 >>,
      << WordG1, WordX5, Mark(";"), Mark("("), WordY3 >>,
      << WordG1, Mark("("), WordY3, Mark(";"), WordZ2, Mark(")"), WordX5 >>,
      << WordG1, WordX5, Mark("("), WordY3 >>,
      << TextWord("G91", "G", Some(91)), Mark("("), TextWord("G90", "G", Some(90)), Mark(")") >>,
      << TextWord("M3", "M", Some(3)), TextWord("S20000", "S", Some(20000)),
         Mark(";"), WordG1 >>,
      << TextWord("G20", "G", Some(20)), Mark(";"), TextWord("inches", "i", None) >> }

\* One iteration of the line loop of parseString (lines 247-250) on the
\* text raw.
ParseText(raw) ==
    /\ pc = "parsing"
    /\ lineNb < MaxLines
    /\ LET sc  == StripComments(raw)
           c   == CommandFrom(sc.words)
           st0 == [relative |-> relative, offset |-> offset, isRelative |-> isRelative,
                   segments |-> segments,
                   warnings |-> warnings \o
                       (IF sc.warn
                        THEN << Warning(lineNb + 1,
                                        "Stripping unterminated round-bracket comment", "") >>
                        ELSE <<>>),
                   raised |-> raised, lineNb |-> lineNb, line |-> None]
       IN  \E st \in {parseLine(st0, c)} :
               /\ lineNb' = st.lineNb
               /\ line' = raw
               /\ relative' = st.relative
               /\ offset' = st.offset
               /\ isRelative' = st.isRelative
               /\ segments' = st.segments
               /\ warnings' = st.warnings
               /\ raised' = st.raised
               /\ pc' = IF st.raised # None THEN "aborted" ELSE "parsing"
               /\ log' = Append(log,
                      [raw    |-> raw,
                       line   |-> c,
                       before |-> Snapshot(relative, offset, isRelative, segments, warnings),
                       after  |-> Snapshot(st.relative, st.offset, st.isRelative,
                                           st.segments, st.warnings),
                       pc     |-> IF st.raised # None THEN "aborted" ELSE "parsing"])
    /\ UNCHANGED postVars
    /\ UNCHANGED calls
    /\ UNCHANGED <<mergerVars, generatorVars>>

NextText ==
    \/ \E raw \in CommentedLines : ParseText(raw)
    \/ PostProcess

SpecText == Init /\ [][NextText]_vars

-----------------------------------------------------------------------------
(* Properties of the Raster Generator *)

max_depth_mm == params[1].max_depth_mm
step_down_mm == params[1].step_down_mm
subdivisions == params[1].subdivisions

\* The grid is one the row loop can scan: at least two rows and two columns.
ScannableGrid == rows >= 2 /\ cols >= 2

\* The value of the pixel of row r (from 0), column c (from 1).
PixelAt(r, c) == image_array[1].px[r + 1][c]

\* The depth the Z word of a controlled-move line commands, in thousandths.
EmittedDepth(ln) == -ln.toks[3].num[1].m

\* C15 (as the code has it): with step_down > 0 and max_depth > 0,
\* step_down >= max_depth gives one pass and step_down = max_depth / 2 gives
\* two passes, the first with depth ceiling max_depth / 2; with step_down > 0
\* total_passes is the least n with n * step_down >= max_depth, which is 0
\* for max_depth = 0; with step_down <= 0 it is 1; and a call that returns
\* has made exactly total_passes passes.
C15_PassCount ==
    total_passes # None =>
        LET n == total_passes[1]
        IN  /\ (step_down_mm > 0 /\ max_depth_mm > 0 /\ step_down_mm >= max_depth_mm)
               => n = 1
            /\ (step_down_mm > 0 /\ max_depth_mm > 0 /\ 2 * step_down_mm = max_depth_mm)
               => /\ n = 2
                  /\ pass_i = 1 => 2 * pass_depth[1] = max_depth_mm
            /\ step_down_mm > 0
               => /\ n * step_down_mm >= max_depth_mm
                  /\ (n - 1) * step_down_mm < max_depth_mm
            /\ (step_down_mm > 0 /\ max_depth_mm = 0) => n = 0
            /\ step_down_mm <= 0 => n = 1
            /\ gpc = "done" => pass_i = n

\* C15 as stated: the same for every max_depth >= 0, so that max_depth = 0
\* with step_down > 0 gives one pass.
C15_PassCountFromZeroDepth ==
    total_passes # None =>
        LET n == total_passes[1]
        IN  /\ (step_down_mm > 0 /\ max_depth_mm >= 0 /\ step_down_mm >= max_depth_mm)
               => n = 1
            /\ (step_down_mm > 0 /\ max_depth_mm >= 0 /\ 2 * step_down_mm = max_depth_mm)
               => /\ n = 2
                  /\ pass_i = 1 => 2 * pass_depth[1] = max_depth_mm
            /\ step_down_mm > 0 => n = Ceil(max_depth_mm, step_down_mm)
            /\ step_down_mm <= 0 => n = 1

\* C15 witness: a scan with step_down = max_depth / 2 has returned after two
\* passes, the first at half the depth.
C15_Witness ==
    /\ gpc = "done"
    /\ ScannableGrid
    /\ max_depth_mm > 0
    /\ 2 * step_down_mm = max_depth_mm
    /\ total_passes = Some(2)
    /\ pass_i = 2
    /\ \E k \in 1..Len(glog) : glog[k].pass = 1 /\ 2 * glog[k].depth = max_depth_mm

\* The depth ceiling of the pass of row record r is min(p * step_down,
\* max_depth), at most max_depth; no move of the row is deeper than it; the
\* depth at a pixel is min((255 - value) / 255 * max_depth, ceiling); and the
\* depth at a pixel in the next pass is not below that of this pass.
WithinCeiling(r) ==
    /\ r.depth = Min(r.pass * step_down_mm, max_depth_mm)
    /\ r.depth <= max_depth_mm
    /\ \A j \in 1..Len(r.moves) :
           LET mv == r.moves[j]
               ln == lines[r.first + j]
           IN  /\ QLe(mv.z, QInt(r.depth))
               /\ ln.head = G1Head
               /\ ln.toks[3].letter = "Z"
               /\ mv.sub = 0 =>
                      mv.z.n * 255 =
                          mv.z.d * Min((255 - PixelAt(r.y, mv.i)) * max_depth_mm,
                                       255 * r.depth)
    /\ \A k2 \in 1..Len(glog) :
           (glog[k2].y = r.y /\ glog[k2].pass = r.pass + 1)
           => \A c \in 1..cols : QLe(r.pts[c].z, glog[k2].pts[c].z)

\* No move of row record r has a depth below 0, computed or as written: its
\* Z word is a number, between -ceiling and 0.
NotAboveSurface(r) ==
    \A j \in 1..Len(r.moves) :
        /\ QLe(QInt(0), r.moves[j].z)
        /\ lines[r.first + j].toks[3].num # None
        /\ EmittedDepth(lines[r.first + j]) \in 0..r.depth

RECURSIVE CountG1(_)
CountG1(ls) ==
    IF ls = <<>> THEN 0
    ELSE (IF ls[1].head = G1Head THEN 1 ELSE 0) + CountG1(Tail(ls))

RECURSIVE SumMoves(_)
SumMoves(g) == IF g = <<>> THEN 0 ELSE Len(g[1].moves) + SumMoves(Tail(g))

EndsAtLastPixel(r) ==
    LET n  == Len(r.moves)
        ln == lines[r.first + n]
        zl == r.moves[n].z
    IN  /\ lines[r.first + n + 1] = Retract(params[1])
        /\ ln.head = G1Head
        /\ ln.toks[1].letter = "X"
        /\ ln.toks[1].num = Num(params[1].width_mm - params[1].margin, 3)
        /\ zl.n * 255 = zl.d * Min((255 - PixelAt(r.y, cols)) * max_depth_mm,
                                   255 * r.depth)

\* The Z word of the last controlled move of row record r is the depth of
\* the last pixel, rounded to the thousandth.
LastDepthWritten(r) ==
    LET n  == Len(r.moves)
        ln == lines[r.first + n]
    IN  /\ ln.toks[3].num # None
        /\ EmittedDepth(ln) = RoundDiv(r.moves[n].z.n, r.moves[n].z.d)

\* C18: in every row of every pass the line before the retract is a
\* controlled move whose X is that of the last pixel, width - margin, and
\* whose depth is that of the last pixel, min((255 - value) / 255 *
\* max_depth, ceiling); the Z word written is "Z-" and that depth rounded to
\* the thousandth (with a depth below zero, which step_down < 0 gives, the
\* same text is no number).
C18_RowEndsAtLastPixel ==
    \A k \in 1..Len(glog) :
        /\ EndsAtLastPixel(glog[k])
        /\ step_down_mm >= 0 => LastDepthWritten(glog[k])
        /\ step_down_mm < 0 =>
               lines[glog[k].first + Len(glog[k].moves)].toks[3].num = None

\* C18 witness: with one subdivision, a row of pass 2 whose last pixel has
\* value 64 and whose pixel before it is white ended at X = 9.000, Z = -1.498.
C18_Witness ==
    /\ gpc = "done"
    /\ subdivisions = 1
    /\ \E k \in 1..Len(glog) :
           /\ glog[k].pass = 2
           /\ PixelAt(glog[k].y, cols) = 64
           /\ PixelAt(glog[k].y, cols - 1) = 255
           /\ lines[glog[k].first + Len(glog[k].moves)].toks[1].num = Num(9000, 3)
           /\ EmittedDepth(lines[glog[k].first + Len(glog[k].moves)]) = 1498

\* C19: a call on a grid with exactly one row or exactly one column (and no
\* empty dimension) raises no ZeroDivisionError.
C19_SingleRowOrColumn ==
    (rows >= 1 /\ cols >= 1 /\ (rows = 1 \/ cols = 1)) => gpc # "ZeroDivisionError"

\* C20: a call on a grid with no row or no column returns no text and does
\* not fail inside the row loop.
C20_EmptyGridRejected ==
    (rows = 0 \/ cols = 0) =>
        /\ gresult = None
        /\ gpc \notin {"ZeroDivisionError", "IndexError"}

\* Line ln has a word that starts with the letter c before any comment.
RECURSIVE HasWordFrom(_, _, _)
HasWordFrom(ln, c, k) ==
    IF k > Len(ln.toks) \/ ln.toks[k].letter = ";" THEN FALSE
    ELSE ln.toks[k].letter = c \/ HasWordFrom(ln, c, k + 1)

HasWord(ln, c) == HasWordFrom(ln, c, 1)

\* The number that follows the letter c in line ln, in thousandths.
WordValue(ln, c) ==
    LET k == CHOOSE j \in 1..Len(ln.toks) : ln.toks[j].letter = c
    IN  ln.toks[k].num[1].m * Pow10(3 - ln.toks[k].num[1].d)

\* Line i of the output is a rapid to the safe height and nothing else.
IsSafeRetract(i) ==
    /\ lines[i].head = G0Head
    /\ HasWord(lines[i], "Z")
    /\ ~HasWord(lines[i], "X") /\ ~HasWord(lines[i], "Y")
    /\ WordValue(lines[i], "Z") = params[1].safe_z_mm

\* Line i of the output is a rapid that positions in X or Y.
IsRapidXY(i) ==
    lines[i].head = G0Head /\ (HasWord(lines[i], "X") \/ HasWord(lines[i], "Y"))

\* C21: at every moment of the generation, each rapid of the output that
\* positions in X or Y (a row's first line, the return to the origin) has a
\* rapid to the safe height before it with no controlled move and no other
\* rapid between the two, and the line after the controlled moves of a row
\* is that rapid to the safe height.
C21_RetractBeforePositioning ==
    /\ \A i \in 1..Len(lines) :
           IsRapidXY(i) =>
               \E j \in 1..(i - 1) :
                   /\ IsSafeRetract(j)
                   /\ \A k \in (j + 1)..(i - 1) :
                          lines[k].head # G1Head /\ lines[k].head # G0Head
    /\ \A i \in 1..(Len(lines) - 1) :
           lines[i].head = G1Head => (lines[i + 1].head = G1Head \/ IsSafeRetract(i + 1))

\* C21 witness: two passes over two rows were written: the second row's rapid
\* follows the retract of the first, and the return to the origin that of
\* the last row.
C21_Witness ==
    /\ gpc = "done"
    /\ Len(glog) = 4
    /\ lines[glog[1].first + Len(glog[1].moves)].head = G1Head
    /\ IsSafeRetract(glog[2].first - 1)
    /\ IsRapidXY(glog[2].first)
    /\ IsRapidXY(Len(lines))
    /\ IsSafeRetract(Len(lines) - 2)

\* C22: the text begins, at every moment of the generation, with absolute
\* positioning (G90), millimetres (G21), the work coordinate system (G54),
\* spindle on (M3 S..), the dwell (G4 P5) and the rapid to the safe height,
\* in this order; the text returned ends with spindle off (M5) and the rapid
\* to X0 Y0 at the safe height; and every controlled move lies after the
\* dwell and, in the text returned, before the spindle-off line.
C22_PreambleAndPostamble ==
    /\ lines # <<>> =>
           /\ Len(lines) >= 7
           /\ lines[1].head = <<"G", "9", "0">>
           /\ lines[2].head = <<"G", "2", "1">>
           /\ lines[3].head = <<"G", "5", "4">>
           /\ lines[4].head = <<"M", "3">>
           /\ HasWord(lines[4], "S")
           /\ WordValue(lines[4], "S") = 1000 * params[1].spindle_speed
           /\ lines[5].head = <<"G", "4">>
           /\ HasWord(lines[5], "P")
           /\ IsSafeRetract(6)
           /\ \A i \in 1..Len(lines) : lines[i].head = G1Head => i > 6
    /\ gpc = "done" =>
           LET n == Len(lines)
           IN  /\ gresult = Some(lines)
               /\ n >= 9
               /\ lines[n - 1].head = <<"M", "5">>
               /\ lines[n].head = G0Head
               /\ HasWord(lines[n], "X") /\ WordValue(lines[n], "X") = 0
               /\ HasWord(lines[n], "Y") /\ WordValue(lines[n], "Y") = 0
               /\ HasWord(lines[n], "Z")
               /\ WordValue(lines[n], "Z") = params[1].safe_z_mm
               /\ \A i \in 1..n : lines[i].head = G1Head => i < n - 1
               /\ \A i \in 1..(n - 2) : lines[i].head # <<"M", "5">>

\* C22 witness: a text with controlled moves was returned.
C22_Witness ==
    /\ gpc = "done"
    /\ CountG1(lines) > 0
    /\ lines[Len(lines) - 1].head = <<"M", "5">>

\* C22 witness for no pass: the text returned is the nine lines of the
\* preamble and the postamble.
C22_WitnessNoPass ==
    /\ gpc = "done"
    /\ total_passes = Some(0)
    /\ Len(lines) = 9

------------------------------------------------------------------------\* The controlled-move lines of the output.
MoveLineNbs == { n \in 1..Len(lines) : lines[n].head = G1Head }

C37_DegenerateStepDown ==
    total_passes # None =>
        /\ step_down_mm <= 0 =>
               /\ total_passes[1] = 1
               /\ pass_i >= 1 => pass_i = 1 /\ pass_depth[1] = step_down_mm
               /\ gpc = "done" => pass_i = 1
               /\ \A k \in 1..Len(glog) :
                      /\ glog[k].pass = 1
                      /\ glog[k].depth = step_down_mm
                      /\ \A j \in 1..Len(glog[k].moves) :
                             QLe(glog[k].moves[j].z, QInt(step_down_mm))
        /\ step_down_mm = 0 =>
               /\ \A k \in 1..Len(glog) : \A j \in 1..Len(glog[k].moves) :
                      glog[k].moves[j].z = QInt(0)
               /\ \A n \in MoveLineNbs :
                      /\ lines[n].toks[3].letter = "Z"
                      /\ lines[n].toks[3].num # None
                      /\ EmittedDepth(lines[n]) = 0
        /\ (max_depth_mm = 0 /\ step_down_mm > 0) =>
               /\ total_passes[1] = 0
               /\ pass_i = 0 /\ pass_depth = None
               /\ glog = <<>>
               /\ MoveLineNbs = {}
               /\ gpc = "done" => lines = Preamble(params[1]) \o Postamble(params[1])

\* C37 witness: with step_down = 0 and max_depth 2.000 a scan over a grid
\* with a pixel of value 64 has returned after one pass with all of its
\* controlled moves at depth 0.
C37_Witness ==
    /\ gpc = "done"
    /\ step_down_mm = 0 /\ max_depth_mm = 2000
    /\ ScannableGrid
    /\ PixelAt(0, 1) = 64
    /\ pass_i = 1
    /\ MoveLineNbs # {}
    /\ \A n \in MoveLineNbs : EmittedDepth(lines[n]) = 0

\* C37, the other two cases reached: a scan with step_down = -1.000 has
\* returned after one pass at the ceiling -1.000, and a call with max_depth
\* 0 and step_down 1.000 has returned after no pass.
C37_WitnessBelowZero ==
    /\ gpc = "done"
    /\ step_down_mm = -1000
    /\ pass_i = 1 /\ pass_depth = Some(-1000)
    /\ Len(glog) = 2
    /\ glog[1].pts[1].z = QInt(-1000)
C37_WitnessNoPass ==
    /\ gpc = "done"
    /\ max_depth_mm = 0 /\ step_down_mm > 0
    /\ ScannableGrid
    /\ pass_i = 0
    /\ Len(lines) = 9

-----
(* Properties of the pipeline *)

\* The numbers of the lines of the text ls that are rapids or controlled
\* moves, in order; line i of ls has the number base + i.
RECURSIVE MotionLineNbs(_, _)
MotionLineNbs(ls, base) ==
    IF ls = <<>> THEN <<>>
    ELSE (IF IsMotion(ls[1]) THEN <<base + 1>> ELSE <<>>)
         \o MotionLineNbs(Tail(ls), base + 1)

\* The text of the generator was given to parseString and the call is over.
Interpreted == gpc = "done" /\ pc \in {"done", "aborted"}

\* C23: interpreting the text the generator returned ends without an
\* exception and yields one segment for every line of the text that is a
\* rapid (G0) or a controlled move (G1), in the order of the lines and of
\* the type of the line, and no other segment; for a grid with C >= 2
\* columns these are 2 + passes * rows * (2 + (C - 1) * (k + 1) + 1)
\* segments.
C23_RoundTripSegmentCount ==
    Interpreted =>
        /\ pc = "done"
        /\ raised = None
        /\ [i \in 1..Len(segments) |-> segments[i].lineNb] = MotionLineNbs(lines, 0)
        /\ \A i \in 1..Len(segments) :
               segments[i].type = CodeOf(lines[segments[i].lineNb].head)
        /\ cols >= 2 =>
               Len(segments)
                   = 2 + total_passes[1] * rows * (2 + (cols - 1) * (subdivisions + 1) + 1)

\* C23 witness: two passes over two rows of two pixels with one subdivision
\* were interpreted: 2 + 2 * 2 * 5 segments, and a warning for each of
\* G54, M3, G4 and M5.
C23_Witness ==
    /\ Interpreted
    /\ total_passes = Some(2)
    /\ rows = 2 /\ cols = 2 /\ subdivisions = 1
    /\ Len(segments) = 22
    /\ Len(warnings) = 4

\* C23 witness for no pass: the two rapids of the preamble and the
\* postamble are the segments.
C23_WitnessNoPass ==
    /\ Interpreted
    /\ total_passes = Some(0)
    /\ cols = 2
    /\ Len(segments) = 2

\* C24 (as the code has it): for an image with at least 2 columns, a margin
\* of at least 0 and at most half the width, the bounding box of the
\* interpreted text has the X-range [0, width - margin] when at least one
\* row was scanned, and [0, 0] when there was no pass or no row: the lower
\* bound is the X of the state before the first move and of the return to
\* the origin, not the margin.
C24_RoundTripBoxFromOrigin ==
    (Interpreted /\ cols >= 2) =>
        /\ bbox # None
        /\ bbox[1].xmin = 0
        /\ bbox[1].xmax = (IF total_passes[1] > 0 /\ rows > 0
                            THEN params[1].width_mm - params[1].margin
                            ELSE 0)

\* C24 as stated: the X-range is [margin, width - margin].
C24_RoundTripBoxFromMargin ==
    (Interpreted /\ cols >= 2) =>
        /\ bbox # None
        /\ bbox[1].xmin = params[1].margin
        /\ bbox[1].xmax = params[1].width_mm - params[1].margin

\* C24 witness: rows were scanned with a margin above 0, and the box goes
\* from 0 to the X of the last pixel.
C24_Witness ==
    /\ Interpreted
    /\ cols >= 2
    /\ total_passes[1] > 0
    /\ params[1].margin = 1000
    /\ bbox # None
    /\ bbox[1].xmin = 0
    /\ bbox[1].xmax = 9000

------------------------------------------------------------------------\* C35: when the text of the generator has been interpreted, as returned or
\* as returned by the merger, the model has segments, every segment has the
\* style fly and the layer index 0, no flow is recorded, and there is
\* exactly one layer, which holds all segments; the interpreter does not
\* raise on such a text.
C35_GeneratedTextIsOneFlyLayer ==
    /\ gpc = "done" => pc # "aborted"
    /\ (gpc = "done" /\ pc = "done") =>
        /\ segments # <<>>
        /\ \A i \in 1..Len(segments) :
               /\ segments[i].style = "fly"
               /\ segments[i].layerIdx = 0
               /\ segments[i].coords["E"] = 0
        /\ Len(layers[1]) = 1
        /\ layers[1][1].segments = [i \in 1..Len(segments) |-> i]

\* C35 witness: the text of two passes over two rows was merged into fewer
\* controlled moves and then interpreted, into one layer of fly segments.
C35_Witness ==
    /\ gpc = "done" /\ mpc = "done" /\ pc = "done"
    /\ pass_i = 2
    /\ ScannableGrid
    /\ CountG1(result[1]) < CountG1(gresult[1])
    /\ Len(segments) >= 2 + CountG1(result[1])
    /\ Len(layers[1]) = 1
    /\ segments[Len(segments)].style = "fly"

\* C35, the text interpreted as returned: one layer of fly segments, one
\* segment for each controlled move.
C35_WitnessDirect ==
    /\ gpc = "done" /\ mpc = "idle" /\ pc = "done"
    /\ pass_i = 2
    /\ ScannableGrid
    /\ Len(segments) >= 2 + CountG1(gresult[1])
    /\ Len(layers[1]) = 1

-----
(* Properties of successive calls on one parser *)

\* The commands of the text of call k, and what a call on a parser that
\* parsed nothing before leaves behind for them.
TextOfCall(k) ==
    LET from == calls[k].from
        to   == IF k < Len(calls) THEN calls[k + 1].from ELSE Len(log)
    IN  [i \in 1..(to - from) |-> Some(log[from + i].line)]

FreshModel(k) == ParseFrom(ModelStart, TextOfCall(k))

\* Call k, when it is one of the entry points in es, began with zero
\* relative coordinates, zero offsets, absolute mode and no segment; and
\* when it is the last call and has returned, the model is the one a parser
\* that parsed nothing before returns for the same text.
CallsStartFresh(es) ==
    \A k \in 1..Len(calls) :
        calls[k].entry \in es =>
            /\ TextOfCall(k) # <<>> =>
                   LET b == log[calls[k].from + 1].before
                   IN  /\ b.relative = ZeroCoords
                       /\ b.offset = ZeroOffset
                       /\ b.isRelative = FALSE
                       /\ b.nseg = 0
            /\ (k = Len(calls) /\ pc = "done") =>
                   LET m == FreshModel(k)
                   IN  /\ m.pc = "done"
                       /\ relative = m.st.relative
                       /\ offset = m.st.offset
                       /\ isRelative = m.st.isRelative
                       /\ segments = m.post[1].segs
                       /\ layers = Some(m.post[1].layers)
                       /\ distance = Some(m.post[1].distance)
                       /\ extrudate = Some(m.post[1].extrudate)
                       /\ bbox = m.post[1].bbox

\* C25: whatever the parser parsed before (a text that was interpreted to
\* its end or one that raised), a call of parseString or of parseFile
\* starts from zero relative coordinates, zero offsets, absolute mode and
\* an empty segment list, and the model it returns for a text is the one a
\* new parser returns for that text.
C25_NoStateAcrossCalls == CallsStartFresh(Entries)

\* C25 for parseString alone, which makes a new GcodeModel.
C25_ParseStringStartsFresh == CallsStartFresh({"parseString"})

\* A second call of parseString returned after a first call that had left
\* relative mode, coordinates, an offset and a segment behind.
C25_ParseStringReached ==
    /\ pc = "done"
    /\ Len(calls) = 2
    /\ calls[2].entry = "parseString"
    /\ calls[2].from = 3
    /\ log[3].after.isRelative
    /\ log[3].after.nseg = 1
    /\ log[3].after.offset["X"] # 0
    /\ Len(log) = 4
    /\ Len(segments) = 1


-----------------------------------------------------------------------------
(* Properties of parseLine on text with comments *)

\* A line without its comment text, read from left to right: everything
\* after a ";", the text from a "(" to the next ")" and everything from a "("
\* that no ")" follows are comment text.
RECURSIVE WithoutComments(_)
WithoutComments(items) ==
    IF items = <<>> THEN <<>>
    ELSE IF Head(items).k = ";" THEN <<>>
    ELSE IF Head(items).k = "("
         THEN IF IndexOf(items, ")", 2) = 0 THEN <<>>
              ELSE WithoutComments(SubSeq(items, IndexOf(items, ")", 2) + 1, Len(items)))
    ELSE <<Head(items)>> \o WithoutComments(Tail(items))

\* The model state of snapshot b, for the line after line n.
StateAt(b, n) ==
    [ModelStart EXCEPT !.relative = b.relative, !.offset = b.offset,
                       !.isRelative = b.isRelative, !.lineNb = n]

\* What the line without its comment text does in the state before line i.
PlainEffect(i) == parseLine(StateAt(log[i].before, i - 1),
                            CommandFrom(WithoutComments(log[i].raw)))

\* C31: every line changes the relative coordinates, the offsets and the
\* mode as the line without its comment text does in the same state, adds a
\* segment when that line does, with the same coordinates, and is fatal when
\* that line is; a line that is only comment text changes none of them and
\* adds no segment.
C31_CommentsDoNotAffectMotion ==
    \A i \in 1..Len(log) :
        LET b == log[i].before
            a == log[i].after
            e == PlainEffect(i)
        IN  /\ a.relative = e.relative
            /\ a.offset = e.offset
            /\ a.isRelative = e.isRelative
            /\ a.nseg = b.nseg + Len(e.segments)
            /\ Len(e.segments) = 1 =>
                   /\ segments[a.nseg].coords = e.segments[1].coords
                   /\ segments[a.nseg].type = e.segments[1].type
            /\ (log[i].pc = "aborted") = (e.raised # None)
            /\ WithoutComments(log[i].raw) = <<>> =>
                   /\ a.relative = b.relative
                   /\ a.offset = b.offset
                   /\ a.isRelative = b.isRelative
                   /\ a.nseg = b.nseg
                   /\ log[i].pc = "parsing"

\* C31 witness: `(G1 X5)` has changed nothing, and `G1 X5`,
\* `G1 (Y3 ; Z2) X5` and `G1 X5 (Y3` after it have each recorded a segment at
\* X = 5 with Y = Z = 0.
C31_Witness ==
    /\ Len(log) = 4
    /\ log[1].raw = << Mark("("), WordG1, WordX5, Mark(")") >>
    /\ log[1].after = log[1].before
    /\ log[2].raw = << WordG1, WordX5 >>
    /\ log[3].raw = << WordG1, Mark("("), WordY3, Mark(";"), WordZ2, Mark(")"), WordX5 >>
    /\ log[4].raw = << WordG1, WordX5, Mark("("), WordY3 >>
    /\ Len(segments) = 3
    /\ \A k \in 1..3 : segments[k].coords = [ZeroCoords EXCEPT !["X"] = 5]

\* No line read so far is a G0 or G1 line.
NoMoveLine ==
    \A i \in 1..Len(log) :
        LET w == WithoutComments(log[i].raw)
        IN  w # <<>> => ItemText(w[1]) \notin {"G0", "G1"}

\* The model is empty: no segment, and once parseString has returned no
\* layer, the totals 0 and no bounding box.
EmptyModel ==
    /\ segments = <<>>
    /\ pc = "done" =>
           /\ layers = Some(<<>>)
           /\ distance = Some(0)
           /\ extrudate = Some(0)
           /\ bbox = None

\* A line read so far is the fatal G20.
SomeLineIsG20 ==
    \E i \in 1..Len(log) :
        LET w == WithoutComments(log[i].raw)
        IN  w # <<>> /\ ItemText(w[1]) = "G20"

\* C38 (as the code has it): while the text has no G0/G1 line the model is
\* empty, and parseString returns it unless a line is G20, which raises.
C38_NoMotionGivesEmptyModelUnlessFatal ==
    NoMoveLine =>
        /\ EmptyModel
        /\ (pc = "aborted") = SomeLineIsG20
        /\ pc = "aborted" => layers = None /\ distance = None /\ bbox = None

\* C38 as stated: for every text with no G0/G1 line the parse completes
\* with the empty model.
C38_NoMotionGivesEmptyModel ==
    NoMoveLine => (EmptyModel /\ pc # "aborted")

\* C38 witness: parseString has returned the empty model for a text of an
\* empty line, a comment line, a mode command and an unknown command.
C38_Witness ==
    /\ pc = "done"
    /\ Len(log) = 4
    /\ NoMoveLine
    /\ log[1].raw = <<>>
    /\ log[2].raw = << Mark(";"), WordG1, WordX5 >>
    /\ log[3].line # None /\ log[3].line[1].code = "G91"
    /\ log[4].line # None /\ log[4].line[1].code = "M3"
    /\ segments = <<>>
    /\ layers = Some(<<>>)
    /\ bbox = None

\* C38, the empty text: parseString has returned the empty model without
\* reading a line.
C38_WitnessEmptyText ==
    /\ pc = "done"
    /\ log = <<>>
    /\ layers = Some(<<>>) /\ distance = Some(0) /\ extrudate = Some(0) /\ bbox = None
=============================================================================
